---- MODULE Spec2Model ----
(***************************************************************************)
(* go-vpn: the address allocator (internal/ipam) and the persistent peer   *)
(* store (internal/server/vpnserver), as state machines.                   *)
(*                                                                         *)
(* An IPv4 address is a tuple of four octets.  A Go string that the code   *)
(* parses or formats is a record [form, ip, bits]: form "ip" is the text   *)
(* of a bare address ("10.0.0.2"), form "cidr" the text of an address with *)
(* a prefix length ("10.0.0.2/32"), form "empty" the empty string and form *)
(* "invalid" a text that parses as neither.                                *)
(***************************************************************************)
EXTENDS Integers, Sequences, FiniteSets, TLC

VARIABLES
    alloc,      \* SpecAlloc: mode -> Allocator, two allocators built from one pool
    calls,      \* SpecAlloc: number of calls made so far (the clock of time.Now)
    last,       \* SpecAlloc: the call that has just returned
    prev,       \* SpecAlloc: what the AllocateIP call before the last one returned
    shared,     \* SpecConc: the one allocator the goroutines share
    mu,         \* SpecConc: holder of Allocator.mu (0 when free)
    pc,         \* SpecConc: goroutine -> position in AllocateIP
    snapshot,   \* SpecConc: the existingUsers list every goroutine passes
    ret,        \* SpecConc: goroutine -> what its AllocateIP returned
    avail,      \* SpecConc: the IsIPAvailable call that has just returned
    fs,         \* SpecStore: path -> file of the data directory
    peers,      \* SpecStore: PeerStore.peers, publicKey -> PeerConfig
    proc,       \* SpecStore: "up", "down" after a crash, "failed" if NewPeerStore failed
    storeMu,    \* SpecStore: whether PeerStore.mu is held
    op,         \* SpecStore: the AddPeer or RemovePeer call in progress
    storeOps,   \* SpecStore: number of mutating calls made (the clock of time.Now)
    lastOp,     \* SpecStore: publicKey -> the latest call on it and how it ended
    pre,        \* SpecStore: the canonical file when the latest call began
    post,       \* SpecStore: the document the latest call set out to save
    rebuilt,    \* SpecStore: the store was rebuilt by a restart and not changed since
    srv,        \* SpecServer: the VPNServer, [running, config]
    backend,    \* SpecServer: VPNServer.backend, the UserspaceBackend it drives
    srvLast,    \* SpecServer: the server call that has just returned
    srvCalls,   \* SpecServer: number of server calls made
    stop,       \* SpecStop: the Stop call in progress, which holds VPNServer.mu
    tm,         \* SpecTunnel: the TunnelManager, [config, wgDevice, connected]
    os,         \* SpecTunnel: the client's system, its routing table and TUN interface
    tmLast,     \* SpecTunnel: the TunnelManager call that has just returned
    tmCalls,    \* SpecTunnel: number of TunnelManager calls made
    wd,         \* SpecDevice: the WireGuardDevice, [device, tun, up]
    wdLast,     \* SpecDevice: the device call that has just returned
    wdCalls,    \* SpecDevice: number of device calls made
    sMu,        \* SpecPlane: VPNServer.mu, [writer, readers]
    task,       \* SpecPlane: goroutine -> the server call it is executing
    reader      \* SpecRegistry: goroutine -> the ListPeers or GetPeer call it is executing

allocVars == <<alloc, calls, last, prev>>
concVars == <<shared, mu, pc, snapshot, ret, avail>>
storeVars == <<fs, peers, proc, storeMu, op, storeOps, lastOp, pre, post, rebuilt>>
serverVars == <<srv, backend, srvLast, srvCalls, stop>>
clientVars == <<tm, os, tmLast, tmCalls>>
deviceVars == <<wd, wdLast, wdCalls>>
planeVars == <<sMu, task>>
vars == <<alloc, calls, last, prev, shared, mu, pc, snapshot, ret, avail,
          fs, peers, proc, storeMu, op, storeOps, lastOp, pre, post, rebuilt,
          srv, backend, srvLast, srvCalls, stop, tm, os, tmLast, tmCalls,
          wd, wdLast, wdCalls, sMu, task, reader>>

(***************************************************************************)
(* Bounds of the model.                                                    *)
(***************************************************************************)
MaxUsers == 2
MaxCalls == 3
NumGoroutines == 2
MaxStoreOps == 3

(***************************************************************************)
(* Addresses, texts, net.ParseIP, net.ParseCIDR, IP.String.                *)
(***************************************************************************)
IPv4(a, b, c, d) == <<a, b, c, d>>
ZeroIP == <<0, 0, 0, 0>>

Pow2(n) == 2 ^ n

\* number of mask bits that fall in octet i of a prefix of the given length
OctetPrefix(bits, i) ==
    LET k == bits - 8 * (i - 1)
    IN  IF k < 0 THEN 0 ELSE IF k > 8 THEN 8 ELSE k

\* ip.Mask(net.CIDRMask(bits, 32)): each octet ANDed with its mask octet
Mask(ip, bits) ==
    [i \in 1..4 |-> ip[i] - (ip[i] % Pow2(8 - OctetPrefix(bits, i)))]

\* the strings the code handles
IPText(ip) == [form |-> "ip", ip |-> ip, bits |-> 0]
CIDRText(ip, bits) == [form |-> "cidr", ip |-> ip, bits |-> bits]
EmptyText == [form |-> "empty", ip |-> ZeroIP, bits |-> 0]
InvalidText == [form |-> "invalid", ip |-> ZeroIP, bits |-> 0]

\* ip.String(): the dotted text of an address
String(ip) == IPText(ip)

\* fmt.Sprintf("%s/32", ip.String())
Sprintf32(ip) == CIDRText(ip, 32)

\* net.ParseIP: the address of a bare-address text, nil for every other text
ParseIP(s) ==
    IF s.form = "ip" THEN [nil |-> FALSE, ip |-> s.ip]
    ELSE [nil |-> TRUE, ip |-> ZeroIP]

\* net.ParseCIDR: (ip, ipnet, err); ip is the address as written, ipnet the
\* masked network
ParseCIDR(s) ==
    IF s.form = "cidr" /\ s.bits \in 0..32
    THEN [err |-> FALSE, ip |-> s.ip,
          net |-> [IP |-> Mask(s.ip, s.bits), bits |-> s.bits]]
    ELSE [err |-> TRUE, ip |-> ZeroIP, net |-> [IP |-> ZeroIP, bits |-> 0]]

\* IPNet.Contains
Contains(cidr, ip) == Mask(ip, cidr.bits) = cidr.IP

\* incrementIP: add one with carry over the octets, wrapping at 256
RECURSIVE incrementFrom(_, _)
incrementFrom(ip, i) ==
    IF i = 0 THEN ip
    ELSE LET v == (ip[i] + 1) % 256
             nxt == [ip EXCEPT ![i] = v]
         IN  IF v # 0 THEN nxt ELSE incrementFrom(nxt, i - 1)

incrementIP(ip) == incrementFrom(ip, 4)

(***************************************************************************)
(* The allocator: NewAllocator and the helpers of AllocateIP.              *)
(***************************************************************************)
StartOctet == 2
EndOctet == 254

NilIP == [nil |-> TRUE, ip |-> ZeroIP]
SomeIP(ip) == [nil |-> FALSE, ip |-> ip]

\* map[string]bool: nil, or the set of keys that map to true
NilMap == [nil |-> TRUE, keys |-> {}]
MakeMap(keys) == [nil |-> FALSE, keys |-> keys]

ZeroStats == [TotalAllocations |-> 0, FailedAllocations |-> 0, LastAllocationTime |-> 0]

Config(cidr, gateway, opt) ==
    [CIDR |-> cidr, Gateway |-> gateway, EnableOptimizations |-> opt]

\* NewAllocator: [err, a]
NewAllocator(config) ==
    LET parsed == ParseCIDR(config.CIDR)
        cidr == parsed.net
        gateway == ParseIP(config.Gateway)
        startIP == [cidr.IP EXCEPT ![4] = StartOctet]
        endIP == [cidr.IP EXCEPT ![4] = EndOctet]
        a == [cidr |-> cidr, gateway |-> gateway.ip,
              startIP |-> startIP, endIP |-> endIP,
              allocatedIPs |-> IF config.EnableOptimizations
                               THEN MakeMap({String(gateway.ip)}) ELSE NilMap,
              lastAllocated |-> IF config.EnableOptimizations
                                THEN SomeIP(startIP) ELSE NilIP,
              stats |-> ZeroStats]
    IN  IF parsed.err THEN [err |-> "invalid CIDR", a |-> a]
        ELSE IF gateway.nil THEN [err |-> "invalid gateway IP", a |-> a]
        ELSE IF ~Contains(cidr, gateway.ip) THEN [err |-> "gateway not in CIDR", a |-> a]
        ELSE [err |-> "nil", a |-> a]

\* isIPInRange without the test that the pool contains the address
isIPInRangeOctetOnly(a, ip) ==
    IF ip[4] < a.startIP[4] \/ ip[4] > a.endIP[4] THEN FALSE
    ELSE ip # Mask(a.startIP, a.cidr.bits)

\* isIPInRange
isIPInRange(a, ip) ==
    IF ip[4] < a.startIP[4] \/ ip[4] > a.endIP[4] THEN FALSE
    ELSE Contains(a.cidr, ip) /\ ip # Mask(a.startIP, a.cidr.bits)

\* UserIP without the net.ParseIP fallback for bare addresses
UserIPCidrOnly(assignedIP) ==
    IF assignedIP = EmptyText THEN NilIP
    ELSE LET c == ParseCIDR(assignedIP)
         IN  IF ~c.err THEN SomeIP(c.ip) ELSE NilIP

\* the address a user's text denotes: ParseCIDR first, then ParseIP, nil when
\* the text is empty or parses as neither
UserIP(assignedIP) ==
    IF assignedIP = EmptyText THEN NilIP
    ELSE LET c == ParseCIDR(assignedIP)
         IN  IF ~c.err THEN SomeIP(c.ip) ELSE ParseIP(assignedIP)

\* the keys the loop over existingUsers adds to a map
RECURSIVE UserKeys(_, _)
UserKeys(existingUsers, keys) ==
    IF existingUsers = <<>> THEN keys
    ELSE LET ip == UserIP(Head(existingUsers))
         IN  UserKeys(Tail(existingUsers),
                      IF ip.nil THEN keys ELSE keys \cup {String(ip.ip)})

\* updateAllocatedIPs that keeps the entries of earlier calls
updateAllocatedIPsKeep(a, existingUsers) ==
    [a EXCEPT !.allocatedIPs =
        MakeMap(UserKeys(existingUsers, a.allocatedIPs.keys \cup {String(a.gateway)}))]

\* updateAllocatedIPs: the map is emptied (recreated or cleared), the gateway
\* marked, and the users' addresses added
updateAllocatedIPs(a, existingUsers) ==
    LET expectedSize == Len(existingUsers) + 1
        n == Cardinality(a.allocatedIPs.keys)
        emptied == IF n = 0 \/ n < expectedSize \div 2 \/ n > expectedSize * 2
                   THEN MakeMap({})
                   ELSE MakeMap(a.allocatedIPs.keys \ a.allocatedIPs.keys)
    IN  [a EXCEPT !.allocatedIPs =
            MakeMap(UserKeys(existingUsers, emptied.keys \cup {String(a.gateway)}))]

\* the error AllocateIP returns: fmt.Errorf("no available IPs in range %s-%s")
ErrNoAvailableIPs == [type |-> "fmt.errorString", text |-> "no available IPs in range"]
NoError == [type |-> "nil", text |-> ""]

Ok(a, ip) == [a |-> a, ip |-> Sprintf32(ip), err |-> NoError]
Fail(a) == [a |-> a, ip |-> EmptyText, err |-> ErrNoAvailableIPs]

\* the loop of allocateIPOptimized, from address ip with attempts made so far
RECURSIVE scanOptimized(_, _, _)
scanOptimized(a, ip, attempts) ==
    LET maxAttempts == (a.endIP[4] - a.startIP[4] + 1) % 256
    IN  IF attempts >= maxAttempts THEN Fail(a)
        ELSE IF ~isIPInRange(a, ip) THEN Fail(a)
        ELSE IF String(ip) \notin a.allocatedIPs.keys
        THEN Ok([a EXCEPT !.allocatedIPs = MakeMap(@.keys \cup {String(ip)}),
                          !.lastAllocated = SomeIP(ip)], ip)
        ELSE scanOptimized(a, incrementIP(ip), attempts + 1)

\* allocateIPOptimized resuming after the last allocated address
allocateIPOptimizedFromLast(a, existingUsers) ==
    LET b == updateAllocatedIPs(a, existingUsers)
    IN  scanOptimized(b, IF a.stats.TotalAllocations = 0 THEN b.startIP
                         ELSE incrementIP(b.lastAllocated.ip), 0)

\* allocateIPOptimized
allocateIPOptimized(a, existingUsers) ==
    LET b == updateAllocatedIPs(a, existingUsers)
    IN  scanOptimized(b, b.startIP, 0)

\* the loop of allocateIPLinear over a local map
RECURSIVE scanLinear(_, _, _)
scanLinear(a, allocated, ip) ==
    IF ~isIPInRange(a, ip) THEN Fail(a)
    ELSE IF String(ip) \notin allocated THEN Ok(a, ip)
    ELSE scanLinear(a, allocated, incrementIP(ip))

\* allocateIPLinear
allocateIPLinear(a, existingUsers) ==
    scanLinear(a, UserKeys(existingUsers, {}) \cup {String(a.gateway)}, a.startIP)

\* the statistics update at the end of AllocateIP
updateStats(r, now) ==
    [r EXCEPT !.a.stats =
        IF r.err = NoError
        THEN [@ EXCEPT !.TotalAllocations = @ + 1, !.LastAllocationTime = now]
        ELSE [@ EXCEPT !.FailedAllocations = @ + 1]]

\* AllocateIP between Lock and Unlock: [a, ip, err]
AllocateIP(a, existingUsers, now) ==
    updateStats(IF ~a.allocatedIPs.nil
                THEN allocateIPOptimized(a, existingUsers)
                ELSE allocateIPLinear(a, existingUsers), now)

\* IsIPAvailable
IsIPAvailable(a, targetIP, existingUsers) ==
    LET ip == ParseIP(targetIP)
    IN  IF ip.nil THEN FALSE
        ELSE IF ~isIPInRange(a, ip.ip) THEN FALSE
        ELSE IF ip.ip = a.gateway THEN FALSE
        ELSE IF ~a.allocatedIPs.nil
        THEN String(ip.ip) \notin (UserKeys(existingUsers, {}) \cup {String(a.gateway)})
        ELSE \A i \in 1..Len(existingUsers) :
                LET userIP == UserIP(existingUsers[i])
                IN  ~(~userIP.nil /\ userIP.ip = ip.ip)

\* ResetStats
ResetStats(a) == [a EXCEPT !.stats = ZeroStats]

(***************************************************************************)
(* The inputs: pools, existingUsers lists, IsIPAvailable targets.          *)
(***************************************************************************)
Host(h) == IPv4(10, 0, 0, h)

\* DefaultConfig
DefaultConfig == Config(CIDRText(Host(0), 24), IPText(Host(1)), TRUE)

\* the pools: the default /24, the /30 of TestAllocateIP_Exhaustion, a /29
\* whose gateway lies inside the scanned range, a /30 that does not start at
\* .0, a /16, and a configuration NewAllocator rejects
Pools ==
    { [CIDR |-> CIDRText(Host(0), 24), Gateway |-> IPText(Host(1))],
      [CIDR |-> CIDRText(Host(0), 30), Gateway |-> IPText(Host(1))],
      [CIDR |-> CIDRText(Host(0), 29), Gateway |-> IPText(Host(3))],
      [CIDR |-> CIDRText(Host(4), 30), Gateway |-> IPText(Host(5))],
      [CIDR |-> CIDRText(Host(0), 16), Gateway |-> IPText(Host(1))],
      [CIDR |-> CIDRText(Host(0), 24), Gateway |-> IPText(IPv4(192, 168, 1, 1))] }

Modes == {"optimized", "linear"}

\* the texts a user's AssignedIP takes
Entries ==
    { CIDRText(Host(2), 32), IPText(Host(3)), CIDRText(Host(4), 32),
      InvalidText, EmptyText }

RECURSIVE SeqsUpTo(_, _)
SeqsUpTo(S, n) ==
    IF n = 0 THEN {<<>>}
    ELSE LET shorter == SeqsUpTo(S, n - 1)
         IN  shorter \cup {Append(q, e) : q \in shorter, e \in S}

UserLists == SeqsUpTo(Entries, MaxUsers)

Targets ==
    { IPText(Host(0)), IPText(Host(1)), IPText(Host(2)), IPText(Host(3)),
      IPText(Host(4)), IPText(Host(5)), IPText(Host(7)), IPText(Host(255)),
      IPText(IPv4(10, 0, 1, 5)), IPText(IPv4(10, 0, 255, 255)),
      IPText(IPv4(192, 168, 1, 1)), CIDRText(Host(3), 32), InvalidText }

\* the addresses a list of users names, as bare or CIDR text
KnownAddrs(users) ==
    {users[i].ip : i \in {j \in 1..Len(users) : users[j].form \in {"ip", "cidr"}}}

\* the addresses a list of users names as bare text, without a prefix length
BareAddrs(users) ==
    {users[i].ip : i \in {j \in 1..Len(users) : users[j].form = "ip"}}

NoResult == [ip |-> EmptyText, err |-> NoError]
\* the call that has just returned: the addresses its list named and the results
NoCall == [op |-> "none", known |-> {}, bare |-> {}, res |-> [m \in Modes |-> NoResult]]

(***************************************************************************)
(* The peer store (package vpnserver): PeerConfig, the JSON document, the  *)
(* files of the data directory.  A document is a sequence of tokens: an    *)
(* opening brace, one entry for each key in sorted order, a closing brace. *)
(* A write that stops early leaves a proper prefix of the sequence.        *)
(***************************************************************************)
PublicKeys == {"k1", "k2"}
SortedKeys == <<"k1", "k2">>
AllowedIPsTexts == {"10.0.0.2/32", "10.0.0.3/32"}

\* a map slot without a PeerConfig
NoPeer == [present |-> FALSE, PublicKey |-> "", AllowedIPs |-> "", RegisteredAt |-> 0]

\* &PeerConfig{PublicKey, AllowedIPs, RegisteredAt}
PeerConfig(publicKey, allowedIPs, registeredAt) ==
    [present |-> TRUE, PublicKey |-> publicKey, AllowedIPs |-> allowedIPs,
     RegisteredAt |-> registeredAt]

\* make(map[string]*PeerConfig)
EmptyPeers == [k \in PublicKeys |-> NoPeer]

OpenBrace == [t |-> "{", k |-> "", v |-> NoPeer]
CloseBrace == [t |-> "}", k |-> "", v |-> NoPeer]
Entry(k, v) == [t |-> "entry", k |-> k, v |-> v]

RECURSIVE MarshalEntries(_, _)
MarshalEntries(m, i) ==
    IF i > Len(SortedKeys) THEN <<>>
    ELSE LET k == SortedKeys[i]
         IN  (IF m[k].present THEN <<Entry(k, m[k])>> ELSE <<>>)
                \o MarshalEntries(m, i + 1)

\* json.MarshalIndent(ps.peers, "", "  "): the keys of a map come out sorted
MarshalIndent(m) == <<OpenBrace>> \o MarshalEntries(m, 1) \o <<CloseBrace>>

\* json.Unmarshal(data, &peers): an error unless data is a complete document
Unmarshal(data) ==
    LET n == Len(data)
        complete == /\ n >= 2
                    /\ data[1].t = "{"
                    /\ data[n].t = "}"
                    /\ \A i \in 2..(n - 1) : data[i].t = "entry"
        at(k) == {i \in 2..(n - 1) : data[i].k = k}
        latest(k) == CHOOSE i \in at(k) : \A j \in at(k) : j <= i
    IN  IF ~complete THEN [err |-> "failed to parse peer store file", peers |-> EmptyPeers]
        ELSE [err |-> "nil",
              peers |-> [k \in PublicKeys |->
                            IF at(k) = {} THEN NoPeer ELSE data[latest(k)].v]]

\* the files of the data directory
FilePath == "peers.json"
NoFile == [exists |-> FALSE, data |-> <<>>]
File(data) == [exists |-> TRUE, data |-> data]

\* tempPath := ps.filePath + ".tmp", given in place of it by a save that
\* writes the document straight to the canonical path
TempPathCanonical(filePath) == filePath

\* tempPath := ps.filePath + ".tmp"
TempPath(filePath) == filePath \o ".tmp"

Paths == {FilePath, FilePath \o ".tmp"}

\* os.Rename that unlinks oldpath and leaves newpath as it was
RenameUnlinkOnly(f, oldpath, newpath) ==
    IF oldpath = newpath THEN f ELSE [f EXCEPT ![oldpath] = NoFile]

\* os.Rename(oldpath, newpath), one step of the file system
Rename(f, oldpath, newpath) ==
    IF oldpath = newpath THEN f
    ELSE [f EXCEPT ![newpath] = f[oldpath], ![oldpath] = NoFile]

\* os.Remove(name)
Remove(f, name) == [f EXCEPT ![name] = NoFile]

\* a load that takes a file it cannot parse for an empty one
loadLenient(f, filePath) ==
    IF ~f[filePath].exists THEN [err |-> "nil", peers |-> EmptyPeers]
    ELSE [err |-> "nil", peers |-> Unmarshal(f[filePath].data).peers]

\* PeerStore.load on the fresh store NewPeerStore has made
load(f, filePath) ==
    IF ~f[filePath].exists THEN [err |-> "nil", peers |-> EmptyPeers]
    ELSE IF Len(f[filePath].data) = 0 THEN [err |-> "nil", peers |-> EmptyPeers]
    ELSE Unmarshal(f[filePath].data)

\* ListPeers: a copy of the map
ListPeers(m) == [k \in {j \in PublicKeys : m[j].present} |-> m[k]]

NoOp == [kind |-> "none", key |-> "", addr |-> "", pc |-> "idle", data |-> <<>>]
NoLast == [kind |-> "none", addr |-> "", status |-> "none"]

\* the store NewPeerStore returns for a data directory holding file
InitStore(file) ==
    /\ fs = [p \in Paths |-> IF p = FilePath THEN file ELSE NoFile]
    /\ peers = load(fs, FilePath).peers
    /\ proc = "up"
    /\ storeMu = FALSE
    /\ op = NoOp
    /\ storeOps = 0
    /\ lastOp = [k \in PublicKeys |-> NoLast]
    /\ pre = file
    /\ post = file
    /\ rebuilt = FALSE

(***************************************************************************)
(* The VPN server (package vpnserver): ServerConfig, key validation, the   *)
(* userspace backend over a WireGuard device.  A key is a text; what       *)
(* base64 decoding makes of it is given by KeyBytes.  Every backend method *)
(* returns the backend after the call, the error text ("nil" for none) and *)
(* the calls it made on the device, in order.                              *)
(***************************************************************************)
MaxTCPUDPPort == 65535

\* base64.StdEncoding.DecodeString(key): the number of bytes, -1 for an error.
\* The texts used as keys are two well-formed peer keys "k1" and "k2", a
\* well-formed server key "priv", a key of 16 bytes "short", and texts that
\* are not base64.
KeyBytes(key) ==
    IF key \in {"k1", "k2", "priv"} THEN 32
    ELSE IF key = "short" THEN 16
    ELSE IF key = "" THEN 0
    ELSE 0 - 1

\* keys.ValidatePrivateKey
ValidatePrivateKey(privateKey) ==
    IF KeyBytes(privateKey) < 0 THEN "invalid base64 encoding"
    ELSE IF KeyBytes(privateKey) # 32 THEN "private key must be exactly 32 bytes"
    ELSE "nil"

\* a conversion that takes any text that decodes
base64ToHexAnyLength(base64Key) ==
    IF KeyBytes(base64Key) < 0 THEN "failed to decode base64 key" ELSE "nil"

\* UserspaceBackend.base64ToHex: the error, "nil" when the key converts
base64ToHex(base64Key) ==
    IF KeyBytes(base64Key) < 0 THEN "failed to decode base64 key"
    ELSE IF KeyBytes(base64Key) # 32 THEN "key must be 32 bytes"
    ELSE "nil"

\* fmt.Errorf("...: %w", err)
Wrap(text, err) == text \o ": " \o err

ServerConfig(interfaceName, privateKey, listenPort, serverIP) ==
    [InterfaceName |-> interfaceName, PrivateKey |-> privateKey,
     ListenPort |-> listenPort, ServerIP |-> serverIP]

\* ServerConfig{}
ZeroConfig == ServerConfig("", "", 0, "")

\* a validation that accepts every listen port
validateConfigAnyPort(config) ==
    IF config.InterfaceName = "" THEN "interface name is required"
    ELSE IF config.PrivateKey = "" THEN "private key is required"
    ELSE IF ValidatePrivateKey(config.PrivateKey) # "nil"
    THEN Wrap("invalid private key", ValidatePrivateKey(config.PrivateKey))
    ELSE IF config.ServerIP = "" THEN "server IP is required"
    ELSE "nil"

\* VPNServer.validateConfig
validateConfig(config) ==
    IF config.InterfaceName = "" THEN "interface name is required"
    ELSE IF config.PrivateKey = "" THEN "private key is required"
    ELSE IF ValidatePrivateKey(config.PrivateKey) # "nil"
    THEN Wrap("invalid private key", ValidatePrivateKey(config.PrivateKey))
    ELSE IF config.ListenPort <= 0 \/ config.ListenPort > MaxTCPUDPPort
    THEN "invalid listen port"
    ELSE IF config.ServerIP = "" THEN "server IP is required"
    ELSE "nil"

\* the WireGuard device a backend holds: none, or one that is up or not
NilDevice == [nil |-> TRUE, up |-> FALSE]
Device(up) == [nil |-> FALSE, up |-> up]

\* a slot of UserspaceBackend.peers
NoAllowedIPs == [present |-> FALSE, allowedIPs |-> <<>>]
AllowedIPs(allowedIPs) == [present |-> TRUE, allowedIPs |-> allowedIPs]

\* make(map[string][]string)
EmptyBackendPeers == [k \in PublicKeys |-> NoAllowedIPs]

\* NewUserspaceBackend
NewUserspaceBackend ==
    [running |-> FALSE, device |-> NilDevice, config |-> ZeroConfig,
     peers |-> EmptyBackendPeers]

BackendResult(ub, err, log) == [ub |-> ub, err |-> err, log |-> log]

\* applyIPCConfig on the backend ub; ok tells whether the device's IpcSet
\* succeeds
applyIPCConfig(ub, ok) ==
    IF ub.device.nil THEN [err |-> "device not initialized", log |-> <<>>]
    ELSE [err |-> IF ok THEN "nil" ELSE "IpcSet failed", log |-> <<"device.IpcSet">>]

\* configureDevice
configureDevice(ub, config, ok) ==
    IF base64ToHex(config.PrivateKey) # "nil"
    THEN [err |-> Wrap("invalid private key format", base64ToHex(config.PrivateKey)),
          log |-> <<>>]
    ELSE applyIPCConfig(ub, ok)

\* a Start that configures the device before it assigns ub.device
BackendStartConfiguresFirst(ub, config, dev) ==
    LET configured == configureDevice(ub, config, dev.configure)
    IN  IF ub.running THEN BackendResult(ub, "backend already running", <<>>)
        ELSE IF ~dev.create
        THEN BackendResult(ub, "failed to create WireGuard device", <<"NewWireGuardDevice">>)
        ELSE IF configured.err # "nil"
        THEN BackendResult([ub EXCEPT !.device = NilDevice],
                           "failed to configure device",
                           <<"NewWireGuardDevice">> \o configured.log \o <<"device.Stop">>)
        ELSE IF ~dev.up
        THEN BackendResult([ub EXCEPT !.device = Device(FALSE)],
                           "failed to start device",
                           <<"NewWireGuardDevice">> \o configured.log
                              \o <<"device.Start", "device.Stop">>)
        ELSE BackendResult([ub EXCEPT !.device = Device(TRUE), !.config = config,
                                      !.running = TRUE],
                           "nil",
                           <<"NewWireGuardDevice">> \o configured.log \o <<"device.Start">>)

\* UserspaceBackend.Start; dev tells which of NewWireGuardDevice, IpcSet and
\* device.Start succeed.  ub.device is assigned before configureDevice runs;
\* it is reset when the configuration fails and kept when device.Start fails
BackendStart(ub, config, dev) ==
    LET assigned == [ub EXCEPT !.device = Device(FALSE)]
        configured == configureDevice(assigned, config, dev.configure)
    IN  IF ub.running THEN BackendResult(ub, "backend already running", <<>>)
        ELSE IF ~dev.create
        THEN BackendResult(ub, "failed to create WireGuard device", <<"NewWireGuardDevice">>)
        ELSE IF configured.err # "nil"
        THEN BackendResult([assigned EXCEPT !.device = NilDevice],
                           "failed to configure device",
                           <<"NewWireGuardDevice">> \o configured.log \o <<"device.Stop">>)
        ELSE IF ~dev.up
        THEN BackendResult(assigned,
                           "failed to start device",
                           <<"NewWireGuardDevice">> \o configured.log
                              \o <<"device.Start", "device.Stop">>)
        ELSE BackendResult([assigned EXCEPT !.device = Device(TRUE), !.config = config,
                                            !.running = TRUE],
                           "nil",
                           <<"NewWireGuardDevice">> \o configured.log \o <<"device.Start">>)

\* UserspaceBackend.Stop: an error of device.Stop is logged, nil is returned
BackendStop(ub) ==
    IF ~ub.running THEN BackendResult(ub, "nil", <<>>)
    ELSE BackendResult([ub EXCEPT !.device = NilDevice, !.running = FALSE,
                                  !.peers = EmptyBackendPeers],
                       "nil",
                       IF ub.device.nil THEN <<>> ELSE <<"device.Stop">>)

\* UserspaceBackend.AddPeer; ipc tells whether IpcSet succeeds
BackendAddPeer(ub, publicKey, allowedIPs, ipc) ==
    IF ~ub.running THEN BackendResult(ub, "backend not running", <<>>)
    ELSE IF base64ToHex(publicKey) # "nil"
    THEN BackendResult(ub, Wrap("invalid public key format", base64ToHex(publicKey)), <<>>)
    ELSE IF ub.device.nil
    THEN BackendResult(ub, Wrap("failed to add peer via IPC", "device not initialized"), <<>>)
    ELSE IF ~ipc
    THEN BackendResult(ub, "failed to add peer via IPC", <<"device.IpcSet">>)
    ELSE BackendResult([ub EXCEPT !.peers[publicKey] = AllowedIPs(allowedIPs)],
                       "nil", <<"device.IpcSet">>)

\* a RemovePeer that forgets every tracked peer
BackendRemovePeerAll(ub, publicKey, ipc) ==
    IF ~ub.running THEN BackendResult(ub, "backend not running", <<>>)
    ELSE IF base64ToHex(publicKey) # "nil"
    THEN BackendResult(ub, Wrap("invalid public key format", base64ToHex(publicKey)), <<>>)
    ELSE IF ub.device.nil
    THEN BackendResult(ub, Wrap("failed to remove peer via IPC", "device not initialized"), <<>>)
    ELSE IF ~ipc
    THEN BackendResult(ub, "failed to remove peer via IPC", <<"device.IpcSet">>)
    ELSE BackendResult([ub EXCEPT !.peers = EmptyBackendPeers], "nil", <<"device.IpcSet">>)

\* UserspaceBackend.RemovePeer; ipc tells whether IpcSet succeeds
BackendRemovePeer(ub, publicKey, ipc) ==
    IF ~ub.running THEN BackendResult(ub, "backend not running", <<>>)
    ELSE IF base64ToHex(publicKey) # "nil"
    THEN BackendResult(ub, Wrap("invalid public key format", base64ToHex(publicKey)), <<>>)
    ELSE IF ub.device.nil
    THEN BackendResult(ub, Wrap("failed to remove peer via IPC", "device not initialized"), <<>>)
    ELSE IF ~ipc
    THEN BackendResult(ub, "failed to remove peer via IPC", <<"device.IpcSet">>)
    ELSE BackendResult([ub EXCEPT !.peers[publicKey] = NoAllowedIPs],
                       "nil", <<"device.IpcSet">>)

\* PeerInfo as GetPeers fills it
PeerInfo(publicKey, allowedIPs) ==
    [PublicKey |-> publicKey, AllowedIPs |-> allowedIPs, Endpoint |-> "",
     LastSeen |-> 0, RxBytes |-> 0, TxBytes |-> 0]

\* UserspaceBackend.GetPeers: the PeerInfo values, in the map's order
BackendGetPeers(ub) ==
    IF ~ub.running THEN [peers |-> {}, err |-> "backend not running"]
    ELSE [peers |-> {PeerInfo(k, ub.peers[k].allowedIPs) :
                        k \in {j \in PublicKeys : ub.peers[j].present}},
          err |-> "nil"]

(***************************************************************************)
(* The peer store as the server calls it: a whole AddPeer or RemovePeer,   *)
(* with the outcome of save given: "ok", or the step that fails, the       *)
(* opening of the temporary file, the write to it, or the rename.          *)
(***************************************************************************)
SaveOutcomes == {"ok", "open", "write", "rename"}

\* PeerStore.save as one step
save(m, f, outcome) ==
    LET tempPath == TempPath(FilePath)
        data == MarshalIndent(m)
        written == [f EXCEPT ![tempPath] = File(data)]
    IN  IF outcome = "open"
        THEN [fs |-> f, err |-> "failed to write temporary peer store file"]
        ELSE IF outcome = "write"
        THEN [fs |-> [f EXCEPT ![tempPath] = File(SubSeq(data, 1, 1))],
              err |-> "failed to write temporary peer store file"]
        ELSE IF outcome = "rename"
        THEN [fs |-> Remove(written, tempPath), err |-> "failed to replace peer store file"]
        ELSE [fs |-> Rename(written, tempPath, FilePath), err |-> "nil"]

\* PeerStore.AddPeer as one step: [peers, fs, err]
PeerStoreAddPeer(m, f, publicKey, allowedIPs, now, outcome) ==
    LET added == [m EXCEPT ![publicKey] = PeerConfig(publicKey, allowedIPs, now)]
        saved == save(added, f, outcome)
    IN  [peers |-> added, fs |-> saved.fs, err |-> saved.err]

\* PeerStore.RemovePeer as one step: [peers, fs, err]
PeerStoreRemovePeer(m, f, publicKey, outcome) ==
    LET removed == [m EXCEPT ![publicKey] = NoPeer]
        saved == save(removed, f, outcome)
    IN  [peers |-> removed, fs |-> saved.fs, err |-> saved.err]

(***************************************************************************)
(* VPNServer: each method as a function of the server, the backend and the *)
(* store, giving them after the call with the error returned and the calls *)
(* made on the backend, the device and the store.                          *)
(***************************************************************************)
\* &VPNServer{backend, peerStore}: running false, config zero
NewVPNServer == [running |-> FALSE, config |-> ZeroConfig]

ServerResult(s, b, m, f, err, log) ==
    [srv |-> s, ub |-> b, peers |-> m, fs |-> f, err |-> err, log |-> log]

\* a replay that ends at the first peer the backend rejects
RECURSIVE restoreUntilError(_, _, _, _)
restoreUntilError(b, m, replay, i) ==
    IF i > Len(SortedKeys) THEN [ub |-> b, log |-> <<>>]
    ELSE LET k == SortedKeys[i]
         IN  IF k \notin DOMAIN ListPeers(m) THEN restoreUntilError(b, m, replay, i + 1)
             ELSE LET r == BackendAddPeer(b, k, <<ListPeers(m)[k].AllowedIPs>>, replay[k])
                      rest == restoreUntilError(r.ub, m, replay, i + 1)
                  IN  IF r.err # "nil"
                      THEN [ub |-> r.ub,
                            log |-> <<"backend.AddPeer">> \o r.log
                                    \o <<"slog.Warn: Failed to restore peer " \o k>>]
                      ELSE [ub |-> rest.ub,
                            log |-> <<"backend.AddPeer">> \o r.log \o rest.log]

\* restorePersistedPeers: the loop over ListPeers, from key i of the order;
\* replay tells for which keys the backend's IpcSet succeeds
RECURSIVE restoreFrom(_, _, _, _)
restoreFrom(b, m, replay, i) ==
    IF i > Len(SortedKeys) THEN [ub |-> b, log |-> <<>>]
    ELSE LET k == SortedKeys[i]
         IN  IF k \notin DOMAIN ListPeers(m) THEN restoreFrom(b, m, replay, i + 1)
             ELSE LET r == BackendAddPeer(b, k, <<ListPeers(m)[k].AllowedIPs>>, replay[k])
                      rest == restoreFrom(r.ub, m, replay, i + 1)
                  IN  [ub |-> rest.ub,
                       log |-> <<"backend.AddPeer">> \o r.log
                                \o (IF r.err # "nil"
                                    THEN <<"slog.Warn: Failed to restore peer " \o k>>
                                    ELSE <<>>)
                                \o rest.log]

\* a Start that lists the persisted peers and replays none of them
restoreNothing(b, m, replay) ==
    [ub |-> b, err |-> "nil", log |-> <<"peerStore.ListPeers">>]

\* restorePersistedPeers
restorePersistedPeers(b, m, replay) ==
    LET r == restoreFrom(b, m, replay, 1)
    IN  [ub |-> r.ub, err |-> "nil", log |-> <<"peerStore.ListPeers">> \o r.log]

\* a read of the running flag that always finds the server stopped
runningNever(s) == FALSE

\* s.running, as Start reads it under the lock
running(s) == s.running

\* VPNServer.Start
ServerStart(s, b, m, f, config, dev, replay) ==
    IF running(s) THEN ServerResult(s, b, m, f, "VPN server already running", <<>>)
    ELSE IF validateConfig(config) # "nil"
    THEN ServerResult(s, b, m, f, Wrap("invalid configuration", validateConfig(config)), <<>>)
    ELSE LET started == BackendStart(b, config, dev)
             restored == restorePersistedPeers(started.ub, m, replay)
         IN  IF started.err # "nil"
             THEN ServerResult(s, started.ub, m, f,
                               Wrap("backend start failed", started.err),
                               <<"backend.Start">> \o started.log)
             ELSE ServerResult([running |-> TRUE, config |-> config],
                               restored.ub, m, f, "nil",
                               <<"backend.Start">> \o started.log \o restored.log)

\* a Stop that stops the backend whether or not the server runs
ServerStopAlways(s, b, m, f) ==
    ServerResult([s EXCEPT !.running = FALSE], BackendStop(b).ub, m, f,
                 IF s.running THEN "nil" ELSE "VPN server not running",
                 <<"backend.Stop">> \o BackendStop(b).log)

\* VPNServer.Stop
ServerStop(s, b, m, f) ==
    IF ~s.running THEN ServerResult(s, b, m, f, "nil", <<>>)
    ELSE LET stopped == BackendStop(b)
         IN  ServerResult([s EXCEPT !.running = FALSE], stopped.ub, m, f, "nil",
                          <<"backend.Stop">> \o stopped.log)

\* an AddClient that returns the error of the store
ServerAddClientStoreFatal(s, b, m, f, publicKey, clientIP, now, ipc, outcome) ==
    IF ~s.running THEN ServerResult(s, b, m, f, "VPN server not running", <<>>)
    ELSE LET added == BackendAddPeer(b, publicKey, <<clientIP \o "/32">>, ipc)
             stored == PeerStoreAddPeer(m, f, publicKey, clientIP \o "/32", now, outcome)
         IN  IF added.err # "nil"
             THEN ServerResult(s, added.ub, m, f,
                               Wrap("failed to add client peer", added.err),
                               <<"backend.AddPeer">> \o added.log)
             ELSE ServerResult(s, added.ub, stored.peers, stored.fs,
                               IF stored.err # "nil"
                               THEN Wrap("failed to persist peer", stored.err)
                               ELSE "nil",
                               <<"backend.AddPeer">> \o added.log
                                    \o <<"peerStore.AddPeer">>)

\* VPNServer.AddClient
ServerAddClient(s, b, m, f, publicKey, clientIP, now, ipc, outcome) ==
    IF ~s.running THEN ServerResult(s, b, m, f, "VPN server not running", <<>>)
    ELSE LET added == BackendAddPeer(b, publicKey, <<clientIP \o "/32">>, ipc)
             stored == PeerStoreAddPeer(m, f, publicKey, clientIP \o "/32", now, outcome)
         IN  IF added.err # "nil"
             THEN ServerResult(s, added.ub, m, f,
                               Wrap("failed to add client peer", added.err),
                               <<"backend.AddPeer">> \o added.log)
             ELSE ServerResult(s, added.ub, stored.peers, stored.fs, "nil",
                               <<"backend.AddPeer">> \o added.log
                                    \o <<"peerStore.AddPeer">>
                                    \o (IF stored.err # "nil"
                                        THEN <<"slog.Warn: Failed to persist peer configuration">>
                                        ELSE <<>>))

\* a RemoveClient that removes from the registry first and from the backend
\* after
ServerRemoveClientStoreFirst(s, b, m, f, publicKey, ipc, outcome) ==
    IF ~s.running THEN ServerResult(s, b, m, f, "VPN server not running", <<>>)
    ELSE LET removed == BackendRemovePeer(b, publicKey, ipc)
             stored == PeerStoreRemovePeer(m, f, publicKey, outcome)
         IN  IF removed.err # "nil"
             THEN ServerResult(s, removed.ub, stored.peers, stored.fs,
                               Wrap("failed to remove client peer", removed.err),
                               <<"peerStore.RemovePeer", "backend.RemovePeer">>
                                    \o removed.log)
             ELSE ServerResult(s, removed.ub, stored.peers, stored.fs, "nil",
                               <<"peerStore.RemovePeer", "backend.RemovePeer">>
                                    \o removed.log)

\* VPNServer.RemoveClient
ServerRemoveClient(s, b, m, f, publicKey, ipc, outcome) ==
    IF ~s.running THEN ServerResult(s, b, m, f, "VPN server not running", <<>>)
    ELSE LET removed == BackendRemovePeer(b, publicKey, ipc)
             stored == PeerStoreRemovePeer(m, f, publicKey, outcome)
         IN  IF removed.err # "nil"
             THEN ServerResult(s, removed.ub, m, f,
                               Wrap("failed to remove client peer", removed.err),
                               <<"backend.RemovePeer">> \o removed.log)
             ELSE ServerResult(s, removed.ub, stored.peers, stored.fs, "nil",
                               <<"backend.RemovePeer">> \o removed.log
                                    \o <<"peerStore.RemovePeer">>
                                    \o (IF stored.err # "nil"
                                        THEN <<"slog.Warn: Failed to remove peer from persistent storage">>
                                        ELSE <<>>))

\* a GetConnectedClients that asks the backend whether or not the server runs
ServerGetConnectedClientsUnchecked(s, b) ==
    [peers |-> BackendGetPeers(b).peers, err |-> BackendGetPeers(b).err,
     log |-> <<"backend.GetPeers">>]

\* VPNServer.GetConnectedClients: [peers, err, log]
ServerGetConnectedClients(s, b) ==
    IF ~s.running THEN [peers |-> {}, err |-> "VPN server not running", log |-> <<>>]
    ELSE [peers |-> BackendGetPeers(b).peers, err |-> BackendGetPeers(b).err,
          log |-> <<"backend.GetPeers">>]

\* keys.PublicKeyFromPrivate: the error, "nil" for a key of 32 bytes
PublicKeyFromPrivate(privateKey) ==
    IF KeyBytes(privateKey) = 32 THEN "nil" ELSE "invalid private key"

\* VPNServer.GetServerInfo: [info, err, log]
ServerGetServerInfo(s) ==
    LET none == [PublicKey |-> "", ListenPort |-> 0, ServerIP |-> ""]
    IN  IF ~s.running THEN [info |-> none, err |-> "VPN server not running", log |-> <<>>]
        ELSE IF PublicKeyFromPrivate(s.config.PrivateKey) # "nil"
        THEN [info |-> none, err |-> "failed to derive public key", log |-> <<>>]
        ELSE [info |-> [PublicKey |-> s.config.PrivateKey,
                        ListenPort |-> s.config.ListenPort,
                        ServerIP |-> s.config.ServerIP],
              err |-> "nil", log |-> <<>>]

(***************************************************************************)
(* The client (cmd/vpn-cli): TunnelManager on Windows, over a WireGuard    *)
(* device and the routing table of the system.  An endpoint is a record    *)
(* [host, port], host "" for an endpoint written ":51820".  A route is a   *)
(* record [network, mask, gateway, iface]; the table is a set of routes.   *)
(* Every method takes the outcomes of the commands it runs as env and      *)
(* gives the lines it prints as out.                                       *)
(***************************************************************************)
ClientConfig(serverEndpoint, serverVPNIP, clientPrivateKey) ==
    [ServerEndpoint |-> serverEndpoint, ServerVPNIP |-> serverVPNIP,
     ClientPrivateKey |-> clientPrivateKey, ServerPublicKey |-> "k1"]

\* &TunnelManager{config: cfg}
NewTunnelManager(cfg) == [config |-> cfg, wgDevice |-> NilDevice, connected |-> FALSE]

Route(network, mask, gateway, iface) ==
    [network |-> network, mask |-> mask, gateway |-> gateway, iface |-> iface]

\* strings.Split(tm.config.ServerEndpoint, ":")[0]
ServerHost(config) == config.ServerEndpoint.host

\* serverIP != "127.0.0.1" && serverIP != "localhost"
IsRemote(config) == ServerHost(config) \notin {"127.0.0.1", "localhost"}

\* extractDefaultGateway over the output of "route print 0.0.0.0": the gateway
\* of a default route that has one, "" when there is none
extractDefaultGateway(table) ==
    LET defaults == {r \in table : /\ r.network = "0.0.0.0" /\ r.mask = "0.0.0.0"
                                   /\ r.gateway \notin {"0.0.0.0", "On-link", ""}}
    IN  IF defaults = {} THEN "" ELSE (CHOOSE r \in defaults : TRUE).gateway

\* the routes configureFullTrafficRouting adds, in its order: the host route
\* of the server by the current gateway, the two halves of the address space
\* and the VPN subnet by the tunnel
SessionRoutes(config, currentGateway) ==
    (IF IsRemote(config)
     THEN <<Route(ServerHost(config), "255.255.255.255", currentGateway, "phys")>>
     ELSE <<>>)
    \o <<Route("0.0.0.0", "128.0.0.0", "0.0.0.0", "tun"),
         Route("128.0.0.0", "128.0.0.0", "0.0.0.0", "tun"),
         Route("10.0.0.0", "255.255.255.0", "0.0.0.0", "tun")>>

\* "route add" of each route of rs from the i-th on: it fails when env says
\* so or the very route is present, which is printed, and goes on
RECURSIVE routeAdd(_, _, _, _)
routeAdd(table, rs, fails, i) ==
    IF i > Len(rs) THEN [routes |-> table, out |-> <<>>]
    ELSE IF rs[i].network \in fails \/ rs[i] \in table
    THEN LET rest == routeAdd(table, rs, fails, i + 1)
         IN  [routes |-> rest.routes,
              out |-> <<"Failed to add route " \o rs[i].network>> \o rest.out]
    ELSE routeAdd(table \cup {rs[i]}, rs, fails, i + 1)

\* the destinations cleanupRouting deletes, in its order
CleanupTargets(config) ==
    <<[network |-> "0.0.0.0", mask |-> "128.0.0.0"],
      [network |-> "128.0.0.0", mask |-> "128.0.0.0"],
      [network |-> "10.0.0.0", mask |-> "255.255.255.0"]>>
    \o (IF IsRemote(config)
        THEN <<[network |-> ServerHost(config), mask |-> "255.255.255.255"]>>
        ELSE <<>>)

\* "route delete network mask m" of each target from the i-th on: it takes
\* away every route to that destination; it fails when env says so or no
\* such route is present; either outcome is printed, and it goes on
RECURSIVE routeDelete(_, _, _, _)
routeDelete(table, ts, fails, i) ==
    IF i > Len(ts) THEN [routes |-> table, out |-> <<>>]
    ELSE LET hit == {r \in table : r.network = ts[i].network /\ r.mask = ts[i].mask}
         IN  IF ts[i].network \in fails \/ hit = {}
             THEN LET rest == routeDelete(table, ts, fails, i + 1)
                  IN  [routes |-> rest.routes,
                       out |-> <<"Route cleanup " \o ts[i].network>> \o rest.out]
             ELSE LET rest == routeDelete(table \ hit, ts, fails, i + 1)
                  IN  [routes |-> rest.routes,
                       out |-> <<"Route removed " \o ts[i].network>> \o rest.out]

\* cleanupRouting
cleanupRouting(config, table, env) ==
    routeDelete(table, CleanupTargets(config), env.deleteFails, 1)

\* WireGuardDevice.Stop on the system sys = [routes, tun]: the TUN interface
\* goes, and the system's routes through it with it, unless the close fails
deviceStop(sys, ok) ==
    IF ok THEN [routes |-> {r \in sys.routes : r.iface # "tun"}, tun |-> FALSE]
    ELSE sys

ClientResult(t, sys, err, out) == [tm |-> t, sys |-> sys, err |-> err, out |-> out]

\* configureVPNRouting on Windows: configureWindowsVPNRouting and
\* configureFullTrafficRouting
configureVPNRouting(config, table, env) ==
    IF ServerHost(config) = "" THEN [routes |-> table, err |-> "nil", out |-> <<>>]
    ELSE IF env.setup = "index"
    THEN [routes |-> table, err |-> "failed to get TUN interface index", out |-> <<>>]
    ELSE IF env.setup = "print"
    THEN [routes |-> table, err |-> "failed to get current default gateway", out |-> <<>>]
    ELSE IF extractDefaultGateway(table) = ""
    THEN [routes |-> table, err |-> "could not determine current default gateway",
          out |-> <<>>]
    ELSE LET added == routeAdd(table, SessionRoutes(config, extractDefaultGateway(table)),
                               env.addFails, 1)
         IN  [routes |-> added.routes, err |-> "nil", out |-> added.out]

\* a setup that returns the routing step's error without stopping the device
setupWireGuardWindowsKeepsDevice(t, sys, env) ==
    LET made == [sys EXCEPT !.tun = TRUE]
        undone == ClientResult([t EXCEPT !.wgDevice = NilDevice],
                               deviceStop(made, env.stop), "", <<>>)
        routed == configureVPNRouting(t.config, made.routes, env)
    IN  IF env.setup = "create"
        THEN ClientResult(t, sys, "failed to create WireGuard device", <<>>)
        ELSE IF KeyBytes(t.config.ClientPrivateKey) < 0
                \/ KeyBytes(t.config.ServerPublicKey) < 0
        THEN [undone EXCEPT !.err = "failed to generate WireGuard config"]
        ELSE IF env.setup = "ipc"
        THEN [undone EXCEPT !.err = "failed to configure WireGuard device"]
        ELSE IF env.setup = "up"
        THEN [undone EXCEPT !.err = "failed to start WireGuard device"]
        ELSE IF routed.err # "nil"
        THEN ClientResult([t EXCEPT !.wgDevice = Device(TRUE)], made,
                          Wrap("failed to configure VPN routing", routed.err), <<>>)
        ELSE ClientResult([t EXCEPT !.wgDevice = Device(TRUE)],
                          [made EXCEPT !.routes = routed.routes], "nil", routed.out)

\* setupWireGuardWindows
setupWireGuardWindows(t, sys, env) ==
    LET made == [sys EXCEPT !.tun = TRUE]
        undone == ClientResult([t EXCEPT !.wgDevice = NilDevice],
                               deviceStop(made, env.stop), "", <<>>)
        routed == configureVPNRouting(t.config, made.routes, env)
    IN  IF env.setup = "create"
        THEN ClientResult(t, sys, "failed to create WireGuard device", <<>>)
        ELSE IF KeyBytes(t.config.ClientPrivateKey) < 0
                \/ KeyBytes(t.config.ServerPublicKey) < 0
        THEN [undone EXCEPT !.err = "failed to generate WireGuard config"]
        ELSE IF env.setup = "ipc"
        THEN [undone EXCEPT !.err = "failed to configure WireGuard device"]
        ELSE IF env.setup = "up"
        THEN [undone EXCEPT !.err = "failed to start WireGuard device"]
        ELSE IF routed.err # "nil"
        THEN [undone EXCEPT !.err = Wrap("failed to configure VPN routing", routed.err)]
        ELSE ClientResult([t EXCEPT !.wgDevice = Device(TRUE)],
                          [made EXCEPT !.routes = routed.routes], "nil", routed.out)

\* teardownWireGuardWindows: nil always
teardownWireGuardWindows(t, sys, env) ==
    IF t.wgDevice.nil
    THEN ClientResult(t, sys, "nil", <<"No active WireGuard device to stop">>)
    ELSE ClientResult([t EXCEPT !.wgDevice = NilDevice], deviceStop(sys, env.stop), "nil",
                      <<"Stopping WireGuard interface...">>
                         \o (IF env.stop THEN <<>>
                             ELSE <<"Warning: failed to stop WireGuard device">>)
                         \o <<"WireGuard userspace device stopped">>)

\* verifyConnection: [ok, out]; env tells what the ping of the server's
\* address, the ping through the tunnel and "route print 10.0.0.0" give; a
\* ping of an empty address fails
verifyConnection(config, env) ==
    LET reached == IF IsRemote(config) THEN <<"External connectivity OK">> ELSE <<>>
    IN  IF IsRemote(config) /\ (~env.coarse \/ ServerHost(config) = "")
        THEN [ok |-> FALSE,
              out |-> <<"DIAGNOSIS: Cannot reach server externally - network/routing issue">>]
        ELSE IF config.ServerVPNIP = "" THEN [ok |-> FALSE, out |-> reached]
        ELSE IF env.inner
        THEN [ok |-> TRUE,
              out |-> reached \o <<"DIAGNOSIS: VPN tunnel is working correctly!">>]
        ELSE [ok |-> FALSE,
              out |-> reached \o <<"DIAGNOSIS: VPN tunnel connectivity failed">>
                      \o (IF env.print = "physical" THEN <<"ROUTING ISSUE DETECTED">>
                          ELSE IF env.print = "other" THEN <<"POSSIBLE CAUSES">>
                          ELSE <<>>)]

\* a Connect that keeps the flag it set before the probe when the probe fails
ConnectStaysConnecting(t, sys, env) ==
    LET setup == setupWireGuardWindows(t, sys, env)
        verified == verifyConnection(t.config, env)
    IN  IF t.connected THEN ClientResult(t, sys, "VPN is already connected", <<>>)
        ELSE IF setup.err # "nil"
        THEN [setup EXCEPT !.err = Wrap("failed to setup WireGuard interface", setup.err)]
        ELSE ClientResult([setup.tm EXCEPT !.connected = TRUE], setup.sys,
                          IF verified.ok THEN "nil"
                          ELSE "VPN handshake failed - interface created but cannot reach server",
                          setup.out \o verified.out)

\* TunnelManager.Connect
Connect(t, sys, env) ==
    LET setup == setupWireGuardWindows(t, sys, env)
        verified == verifyConnection(t.config, env)
    IN  IF t.connected THEN ClientResult(t, sys, "VPN is already connected", <<>>)
        ELSE IF setup.err # "nil"
        THEN [setup EXCEPT !.err = Wrap("failed to setup WireGuard interface", setup.err)]
        ELSE IF verified.ok
        THEN ClientResult([setup.tm EXCEPT !.connected = TRUE], setup.sys, "nil",
                          setup.out \o verified.out)
        ELSE ClientResult([setup.tm EXCEPT !.connected = FALSE], setup.sys,
                          "VPN handshake failed - interface created but cannot reach server",
                          setup.out \o verified.out
                             \o <<"VPN interface created but handshake failed">>)

\* a Disconnect that tears the interface down before it cleans the routes up
DisconnectTearsDownFirst(t, sys, env) ==
    LET torn == teardownWireGuardWindows(t, sys, env)
        cleaned == cleanupRouting(t.config, torn.sys.routes, env)
    IN  IF ~t.connected THEN ClientResult(t, sys, "VPN is not connected", <<>>)
        ELSE ClientResult([torn.tm EXCEPT !.connected = FALSE],
                          [torn.sys EXCEPT !.routes = cleaned.routes], "nil",
                          torn.out \o cleaned.out)

\* a Disconnect that gives up, still connected, when a route delete fails
DisconnectAbortsOnFailure(t, sys, env) ==
    LET cleaned == cleanupRouting(t.config, sys.routes, env)
        torn == teardownWireGuardWindows(t, [sys EXCEPT !.routes = cleaned.routes], env)
    IN  IF ~t.connected THEN ClientResult(t, sys, "VPN is not connected", <<>>)
        ELSE IF cleaned.out # <<>>
        THEN ClientResult(t, [sys EXCEPT !.routes = cleaned.routes],
                          "failed to clean up routes", cleaned.out)
        ELSE ClientResult([torn.tm EXCEPT !.connected = FALSE], torn.sys, "nil",
                          cleaned.out \o torn.out)

\* a Disconnect that cleans the routes up before it looks at the flag
DisconnectCleansFirst(t, sys, env) ==
    LET cleaned == cleanupRouting(t.config, sys.routes, env)
        torn == teardownWireGuardWindows(t, [sys EXCEPT !.routes = cleaned.routes], env)
    IN  IF ~t.connected
        THEN ClientResult(t, [sys EXCEPT !.routes = cleaned.routes],
                          "VPN is not connected", <<>>)
        ELSE ClientResult([torn.tm EXCEPT !.connected = FALSE], torn.sys, "nil",
                          cleaned.out \o torn.out)

\* TunnelManager.Disconnect
Disconnect(t, sys, env) ==
    LET cleaned == cleanupRouting(t.config, sys.routes, env)
        torn == teardownWireGuardWindows(t, [sys EXCEPT !.routes = cleaned.routes], env)
    IN  IF ~t.connected THEN ClientResult(t, sys, "VPN is not connected", <<>>)
        ELSE ClientResult([torn.tm EXCEPT !.connected = FALSE], torn.sys, "nil",
                          cleaned.out \o torn.out)

(***************************************************************************)
(* The WireGuardDevice (internal/wireguard): the engine's device and the   *)
(* TUN interface it runs on.  A handle is "nil", "open" or "closed".       *)
(***************************************************************************)
\* &WireGuardDevice{}
ZeroDevice == [device |-> "nil", tun |-> "nil", up |-> FALSE]

\* NewWireGuardDevice; ok tells whether tun.CreateTUN succeeds
NewWireGuardDevice(ok) ==
    IF ~ok THEN [wd |-> ZeroDevice, nil |-> TRUE, err |-> "failed to create TUN interface",
                 log |-> <<"tun.CreateTUN">>]
    ELSE [wd |-> [device |-> "open", tun |-> "open", up |-> FALSE], nil |-> FALSE,
          err |-> "nil", log |-> <<"tun.CreateTUN", "device.NewDevice">>]

\* WireGuardDevice.Start; ok tells whether device.Up succeeds
DeviceStart(d, ok) ==
    IF d.device = "nil" THEN [wd |-> d, err |-> "device not initialized", log |-> <<>>]
    ELSE IF ~ok
    THEN [wd |-> d, err |-> "failed to start WireGuard device", log |-> <<"device.Up">>]
    ELSE [wd |-> [d EXCEPT !.up = TRUE], err |-> "nil", log |-> <<"device.Up">>]

\* a Stop that does not recover from a panic of device.Close: the panic
\* leaves Stop before the TUN is closed
DeviceStopNoRecover(d, close, tunClose) ==
    LET panics == d.device # "nil" /\ close = "panics"
        closing == IF d.device = "nil" THEN <<>> ELSE <<"device.Close">>
    IN  IF panics
        THEN [wd |-> d, err |-> "nil", panic |-> TRUE, log |-> closing]
        ELSE [wd |-> [d EXCEPT !.device = IF @ = "nil" THEN "nil" ELSE "closed",
                               !.tun = IF @ # "nil" /\ tunClose THEN "closed" ELSE @,
                               !.up = FALSE],
              err |-> IF d.tun # "nil" /\ ~tunClose
                      THEN "failed to close TUN interface" ELSE "nil",
              panic |-> FALSE,
              log |-> closing \o (IF d.tun = "nil" THEN <<>> ELSE <<"tun.Close">>)]

\* WireGuardDevice.Stop; close tells whether device.Close returns or panics,
\* tunClose whether tun.Close succeeds.  panic tells whether a panic leaves
\* Stop.
DeviceStop(d, close, tunClose) ==
    LET panics == d.device # "nil" /\ close = "panics"
        closing == IF d.device = "nil" THEN <<>>
                   ELSE IF panics THEN <<"device.Close", "recover">>
                   ELSE <<"device.Close">>
    IN  [wd |-> [d EXCEPT !.device = IF @ = "nil" \/ panics THEN @ ELSE "closed",
                           !.tun = IF @ # "nil" /\ tunClose THEN "closed" ELSE @,
                           !.up = IF panics THEN @ ELSE FALSE],
         err |-> IF d.tun # "nil" /\ ~tunClose
                 THEN "failed to close TUN interface" ELSE "nil",
         panic |-> FALSE,
         log |-> closing \o (IF d.tun = "nil" THEN <<>> ELSE <<"tun.Close">>)]

(***************************************************************************)
(* The server's state: the VPNServer, its backend, the call that has just  *)
(* returned, and the number of calls made.                                 *)
(***************************************************************************)
\* no Stop is in progress
NoStop == [pc |-> "idle", engine |-> "returns", expired |-> FALSE]

NoServerCall ==
    [op |-> "none", err |-> "nil", log |-> <<>>, args |-> <<>>, res |-> <<>>]

\* NewVPNServer over NewUserspaceBackend, before any call
InitServer ==
    /\ srv = NewVPNServer
    /\ backend = NewUserspaceBackend
    /\ srvLast = NoServerCall
    /\ srvCalls = 0
    /\ stop = NoStop

\* the routes of a system before any session: the default route, and
\* perhaps a route to the VPN subnet's addresses, a host route to the server,
\* and another route
DefaultRoute == Route("0.0.0.0", "0.0.0.0", "192.168.1.1", "phys")
OtherRoutes ==
    {Route("10.0.0.0", "255.255.255.0", "192.168.1.254", "phys"),
     Route("203.0.113.5", "255.255.255.255", "192.168.1.2", "phys"),
     Route("172.16.0.0", "255.240.0.0", "192.168.1.1", "phys")}

NoTunnelCall ==
    [op |-> "none", err |-> "nil", out |-> <<>>, env |-> <<>>,
     before |-> [routes |-> {}, tun |-> FALSE], atConnect |-> {}]

\* NewTunnelManager(cfg) on the system with the routes of table
InitClient(cfg, table) ==
    /\ tm = NewTunnelManager(cfg)
    /\ os = [routes |-> table, tun |-> FALSE]
    /\ tmLast = NoTunnelCall
    /\ tmCalls = 0

NoDeviceCall == [op |-> "none", err |-> "nil", log |-> <<>>, panic |-> FALSE, before |-> ZeroDevice]

\* a WireGuardDevice with no handle, before any call
InitDevice ==
    /\ wd = ZeroDevice
    /\ wdLast = NoDeviceCall
    /\ wdCalls = 0

\* no goroutine holds VPNServer.mu
FreeMutex == [writer |-> 0, readers |-> {}]

\* a goroutine that executes no call
NoTask == [op |-> "none", pc |-> "idle", key |-> "", ip |-> "", err |-> "nil", seen |-> FALSE]

\* a goroutine that executes no ListPeers and no GetPeer; result is what its
\* latest call returned
NoRead == [pc |-> "idle", key |-> "", visited |-> {}, result |-> EmptyPeers]

\* a read lock that waits for no writer
CanRLockAlways == TRUE

\* ps.mu.RLock() can be taken: no goroutine holds the write lock
CanRLock == ~storeMu

\* ps.mu.Lock() can be taken: no goroutine holds the write lock or a read lock
CanLock == ~storeMu /\ \A g \in 1..NumGoroutines : reader[g].pc = "idle"

\* no call in progress on the server or on the peer store
InitPlane ==
    /\ sMu = FreeMutex
    /\ task = [g \in 1..NumGoroutines |-> NoTask]
    /\ reader = [g \in 1..NumGoroutines |-> NoRead]

(***************************************************************************)
(* SpecAlloc: sequential calls on two allocators built from one pool, one  *)
(* with EnableOptimizations and one without, each call made on both.       *)
(***************************************************************************)
InitConc(pool) ==
    /\ shared = NewAllocator(Config(pool.CIDR, pool.Gateway, TRUE)).a
    /\ mu = 0
    /\ pc = [g \in 1..NumGoroutines |-> "idle"]
    /\ snapshot = <<>>
    /\ ret = [g \in 1..NumGoroutines |-> NoResult]
    /\ avail = [target |-> EmptyText, res |-> FALSE, called |-> FALSE]

InitAlloc ==
    /\ \E pool \in Pools :
          /\ NewAllocator(Config(pool.CIDR, pool.Gateway, TRUE)).err = "nil"
          /\ alloc = [m \in Modes |->
                        NewAllocator(Config(pool.CIDR, pool.Gateway, m = "optimized")).a]
          /\ InitConc(pool)
    /\ calls = 0
    /\ last = NoCall
    /\ prev = NoResult
    /\ InitStore(NoFile)
    /\ InitServer
    /\ InitClient(ClientConfig([host |-> "203.0.113.5", port |-> "51820"], "10.0.0.1", "priv"),
                  {DefaultRoute})
    /\ InitDevice
    /\ InitPlane

\* one AllocateIP(existingUsers) call on each allocator
CallAllocateIP(existingUsers) ==
    /\ calls < MaxCalls
    /\ \E r \in {[m \in Modes |-> AllocateIP(alloc[m], existingUsers, calls + 1)]} :
           /\ alloc' = [m \in Modes |-> r[m].a]
           /\ last' = [op |-> "AllocateIP", known |-> KnownAddrs(existingUsers),
                       bare |-> BareAddrs(existingUsers),
                       res |-> [m \in Modes |-> [ip |-> r[m].ip, err |-> r[m].err]]]
    /\ prev' = IF last.op = "AllocateIP" THEN last.res["optimized"] ELSE prev
    /\ calls' = calls + 1
    /\ UNCHANGED <<concVars, storeVars, serverVars, clientVars, deviceVars, planeVars, reader>>

\* one ResetStats call on each allocator
CallResetStats ==
    /\ calls < MaxCalls
    /\ alloc' = [m \in Modes |-> ResetStats(alloc[m])]
    /\ last' = [NoCall EXCEPT !.op = "ResetStats"]
    /\ calls' = calls + 1
    /\ UNCHANGED <<prev, concVars, storeVars, serverVars, clientVars, deviceVars, planeVars, reader>>

NextAlloc ==
    \/ \E existingUsers \in UserLists : CallAllocateIP(existingUsers)
    \/ CallResetStats

SpecAlloc == InitAlloc /\ [][NextAlloc]_vars

(***************************************************************************)
(* Properties of AllocateIP under SpecAlloc.                               *)
(***************************************************************************)
IPNum(ip) == ((ip[1] * 256 + ip[2]) * 256 + ip[3]) * 256 + ip[4]

\* the allocation range [start,end]: the addresses from startIP (x.2) up to
\* endIP (x.254) that lie in the pool; none when startIP itself lies outside
\* the pool (a pool is an interval, so the range has no gaps)
RangeAddr(a, h) == [a.startIP EXCEPT ![4] = h]

InRange(a, ip) ==
    /\ ip[4] >= StartOctet /\ ip[4] <= EndOctet
    /\ ip = RangeAddr(a, ip[4])
    /\ Contains(a.cidr, ip)
    /\ Contains(a.cidr, a.startIP)

\* an address of the range that is neither the gateway nor known
IsFree(a, known, ip) ==
    InRange(a, ip) /\ ip # a.gateway /\ ip \notin known

NoneFree(a, known) ==
    \A h \in StartOctet..EndOctet : ~IsFree(a, known, RangeAddr(a, h))

\* ip is free and no numerically lower address of the range is: the
\* addresses of the range differ in the last octet only, so the lower ones
\* are those with a lower last octet
IsLowestFree(a, known, ip) ==
    /\ IsFree(a, known, ip)
    /\ \A h \in StartOctet..(ip[4] - 1) :
          /\ IPNum(RangeAddr(a, h)) < IPNum(ip)
          /\ ~IsFree(a, known, RangeAddr(a, h))

NetworkAddr(a) == a.cidr.IP
BroadcastAddr(a) ==
    [i \in 1..4 |-> a.cidr.IP[i] + Pow2(8 - OctetPrefix(a.cidr.bits, i)) - 1]

Returned(m) == last.op = "AllocateIP" /\ last.res[m].err = NoError
Failed(m) == last.op = "AllocateIP" /\ last.res[m].err # NoError

\* C2: every address AllocateIP returns, in either mode and after any earlier
\* calls, is the numerically lowest address of the allocation range that is
\* neither the gateway nor named by known_assignments, formatted as a /32.
C2_LowestFree ==
    \A m \in Modes :
        Returned(m) =>
            /\ IsLowestFree(alloc[m], last.known, last.res[m].ip.ip)
            /\ last.res[m].ip = CIDRText(last.res[m].ip.ip, 32)

\* the gap case after an earlier call: .2 and .4 are taken and .3 is returned
C2_Witness ==
    /\ calls >= 2 /\ prev.err = NoError /\ prev.ip # last.res["optimized"].ip
    /\ Returned("optimized") /\ Returned("linear")
    /\ last.known = {Host(2), Host(4)}
    /\ last.res["optimized"].ip = CIDRText(Host(3), 32)

\* C3: at every step of a sequence of AllocateIP calls the allocator with
\* EnableOptimizations and the one without return the same result.
C3_StrategiesAgree ==
    last.op = "AllocateIP" => last.res["optimized"] = last.res["linear"]

\* a later call of a sequence, whose result differs from the call before it
C3_Witness ==
    /\ calls >= 2 /\ last.op = "AllocateIP"
    /\ prev # NoResult /\ prev # last.res["optimized"]
    /\ alloc["optimized"].allocatedIPs.nil = FALSE
    /\ alloc["linear"].allocatedIPs.nil = TRUE

\* C4: AllocateIP never returns the gateway, the network address or the
\* broadcast address of the pool.
C4_NeverGatewayNetworkBroadcast ==
    \A m \in Modes :
        Returned(m) =>
            last.res[m].ip.ip \notin
                {alloc[m].gateway, NetworkAddr(alloc[m]), BroadcastAddr(alloc[m])}

C6_AssignedNeverReturned ==
    [][(last'.op = "AllocateIP" /\ calls' = calls + 1
            /\ last'.res["optimized"].err = NoError)
        => String(last'.res["optimized"].ip.ip) \notin alloc["optimized"].allocatedIPs.keys]_vars

\* C6 amended: the assigned-set of a call is the gateway and what
\* known_assignments names, rebuilt on every call; no address of it is
\* returned, and after the call it holds these and the returned address.
C6_AssignedSetOfCall ==
    last.op = "AllocateIP" =>
        LET a == alloc["optimized"]
            assigned == {String(ip) : ip \in last.known \cup {a.gateway}}
            r == last.res["optimized"]
        IN  /\ r.err = NoError => String(r.ip.ip) \notin assigned
            /\ a.allocatedIPs.keys =
                 assigned \cup (IF r.err = NoError THEN {String(r.ip.ip)} ELSE {})

\* the address the call before returned is returned again, beside a known
\* address given as bare text
C6_Witness ==
    /\ Returned("optimized") /\ prev = last.res["optimized"]
    /\ Host(3) \in last.bare

(***************************************************************************)
(* SpecConc: goroutines call AllocateIP on one allocator, every one with   *)
(* the same existingUsers list (TestConcurrentAllocation).                 *)
(* SpecAvail: IsIPAvailable, which takes no lock, is called with the same  *)
(* list at any moment of one AllocateIP call (TestConcurrentOperations).   *)
(***************************************************************************)
Goroutines == 1..NumGoroutines

InitConcurrent ==
    /\ \E pool \in Pools, opt \in BOOLEAN :
          /\ NewAllocator(Config(pool.CIDR, pool.Gateway, opt)).err = "nil"
          /\ shared = NewAllocator(Config(pool.CIDR, pool.Gateway, opt)).a
    /\ snapshot \in UserLists
    /\ mu = 0
    /\ pc = [g \in Goroutines |-> "idle"]
    /\ ret = [g \in Goroutines |-> NoResult]
    /\ avail = [target |-> EmptyText, res |-> FALSE, called |-> FALSE]
    /\ alloc = [m \in Modes |->
                  NewAllocator([DefaultConfig EXCEPT !.EnableOptimizations = (m = "optimized")]).a]
    /\ calls = 0
    /\ last = NoCall
    /\ prev = NoResult
    /\ InitStore(NoFile)
    /\ InitServer
    /\ InitClient(ClientConfig([host |-> "203.0.113.5", port |-> "51820"], "10.0.0.1", "priv"),
                  {DefaultRoute})
    /\ InitDevice
    /\ InitPlane

\* the clock of time.Now in a goroutine: the calls that returned before it
Now == Cardinality({g \in Goroutines : pc[g] = "done"}) + 1

\* a.mu.Lock() that does not wait for the holder
LockNoWait(g) ==
    /\ pc[g] = "idle"
    /\ mu' = g
    /\ pc' = [pc EXCEPT ![g] = "locked"]
    /\ UNCHANGED <<shared, snapshot, ret, avail, allocVars, storeVars, serverVars, clientVars, deviceVars, planeVars, reader>>

\* a.mu.Lock() at the head of AllocateIP
Lock(g) ==
    /\ pc[g] = "idle"
    /\ mu = 0
    /\ mu' = g
    /\ pc' = [pc EXCEPT ![g] = "locked"]
    /\ UNCHANGED <<shared, snapshot, ret, avail, allocVars, storeVars, serverVars, clientVars, deviceVars, planeVars, reader>>

\* optimized mode, first half of allocateIPOptimized: updateAllocatedIPs
Update(g) ==
    /\ pc[g] = "locked"
    /\ ~shared.allocatedIPs.nil
    /\ shared' = updateAllocatedIPs(shared, snapshot)
    /\ pc' = [pc EXCEPT ![g] = "updated"]
    /\ UNCHANGED <<mu, snapshot, ret, avail, allocVars, storeVars, serverVars, clientVars, deviceVars, planeVars, reader>>

\* optimized mode, the scan, the statistics, the deferred Unlock and return
Scan(g) ==
    /\ pc[g] = "updated"
    /\ \E r \in {updateStats(scanOptimized(shared, shared.startIP, 0), Now)} :
           /\ shared' = r.a
           /\ ret' = [ret EXCEPT ![g] = [ip |-> r.ip, err |-> r.err]]
    /\ mu' = 0
    /\ pc' = [pc EXCEPT ![g] = "done"]
    /\ UNCHANGED <<snapshot, avail, allocVars, storeVars, serverVars, clientVars, deviceVars, planeVars, reader>>

\* linear mode: allocateIPLinear, the statistics, the deferred Unlock and return
Linear(g) ==
    /\ pc[g] = "locked"
    /\ shared.allocatedIPs.nil
    /\ \E r \in {updateStats(allocateIPLinear(shared, snapshot), Now)} :
           /\ shared' = r.a
           /\ ret' = [ret EXCEPT ![g] = [ip |-> r.ip, err |-> r.err]]
    /\ mu' = 0
    /\ pc' = [pc EXCEPT ![g] = "done"]
    /\ UNCHANGED <<snapshot, avail, allocVars, storeVars, serverVars, clientVars, deviceVars, planeVars, reader>>

\* IsIPAvailable(targetIP, existingUsers), which takes no lock
CallIsIPAvailable(targetIP) ==
    /\ avail' = [target |-> targetIP,
                 res |-> IsIPAvailable(shared, targetIP, snapshot),
                 called |-> TRUE]
    /\ UNCHANGED <<shared, mu, pc, snapshot, ret, allocVars, storeVars, serverVars, clientVars, deviceVars, planeVars, reader>>

NextConc ==
    \/ \E g \in Goroutines : Lock(g)
    \/ \E g \in Goroutines : Update(g)
    \/ \E g \in Goroutines : Scan(g)
    \/ \E g \in Goroutines : Linear(g)

SpecConc == InitConcurrent /\ [][NextConc]_vars

NextAvail ==
    \/ Lock(1)
    \/ Update(1)
    \/ Scan(1)
    \/ Linear(1)
    \/ \E targetIP \in Targets : CallIsIPAvailable(targetIP)

SpecAvail == InitConcurrent /\ [][NextAvail]_vars

(***************************************************************************)
(* Properties of concurrent calls under SpecConc.                          *)
(***************************************************************************)
Done(g) == pc[g] = "done"
InCritical(g) == pc[g] \in {"locked", "updated"}

\* C1 as stated: the addresses concurrent AllocateIP calls with one
\* known_assignments snapshot return are pairwise distinct and lie within
\* [start,end].
C1_PairwiseDistinct ==
    \A g \in Goroutines, h \in Goroutines :
        (g # h /\ Done(g) /\ Done(h) /\ ret[g].err = NoError /\ ret[h].err = NoError)
            => /\ ret[g].ip # ret[h].ip
               /\ InRange(shared, ret[g].ip.ip)

\* C1 amended: concurrent AllocateIP calls are serialized by the allocator's
\* mutex (at most one call is between Lock and Unlock, and it holds mu), and
\* every address returned lies within [start,end] and is neither the gateway
\* nor in the snapshot; calls given one snapshot are not given distinct
\* addresses.
C1_SerializedInRange ==
    /\ \A g \in Goroutines, h \in Goroutines :
            (InCritical(g) /\ InCritical(h)) => g = h
    /\ \A g \in Goroutines : InCritical(g) => mu = g
    /\ \A g \in Goroutines :
            (Done(g) /\ ret[g].err = NoError) =>
                /\ InRange(shared, ret[g].ip.ip)
                /\ ret[g].ip.ip \notin KnownAddrs(snapshot) \cup {shared.gateway}

\* two calls have returned, one while the other waited, with the same address
C1_Witness ==
    \E g \in Goroutines, h \in Goroutines :
        /\ g # h /\ Done(g) /\ Done(h)
        /\ ret[g].err = NoError /\ ret[g] = ret[h]
        /\ shared.stats.TotalAllocations >= 2

C8_AvailableAgrees ==
    /\ (avail.called /\ avail.target.form = "ip") =>
         LET ip == avail.target.ip
             excluded == \/ ip \in {shared.gateway, NetworkAddr(shared), BroadcastAddr(shared)}
                         \/ ~Contains(shared.cidr, ip)
                         \/ ip \in KnownAddrs(snapshot)
         IN  /\ excluded => ~avail.res
             /\ (InRange(shared, ip) /\ ~excluded) => avail.res
    /\ \A g \in Goroutines :
         Done(g) =>
            IF ret[g].err = NoError
            THEN IsIPAvailable(shared, IPText(ret[g].ip.ip), snapshot)
            ELSE avail.called => ~avail.res

(***************************************************************************)
(* SpecStore: one caller makes AddPeer and RemovePeer calls on a store;    *)
(* save goes step by step through the file system, any step of which can   *)
(* fail; the process can crash at any moment and be started again on the   *)
(* same data directory.                                                    *)
(***************************************************************************)
InitPeerStore ==
    /\ \E file \in {NoFile, File(<<>>)} : InitStore(file)
    /\ InitConc(DefaultConfig)
    /\ InitServer
    /\ InitClient(ClientConfig([host |-> "203.0.113.5", port |-> "51820"], "10.0.0.1", "priv"),
                  {DefaultRoute})
    /\ InitDevice
    /\ InitPlane
    /\ alloc = [m \in Modes |->
                  NewAllocator([DefaultConfig EXCEPT !.EnableOptimizations = (m = "optimized")]).a]
    /\ calls = 0
    /\ last = NoCall
    /\ prev = NoResult

\* the deferred ps.mu.Unlock() and the return of the call in progress
Return(status) ==
    /\ storeMu' = FALSE
    /\ op' = NoOp
    /\ lastOp' = [lastOp EXCEPT ![op.key].status = status]

\* AddPeer(publicKey, allowedIPs) up to the call of save
AddPeer(publicKey, allowedIPs) ==
    /\ proc = "up" /\ CanLock /\ storeOps < MaxStoreOps
    /\ storeMu' = TRUE
    /\ peers' = [peers EXCEPT ![publicKey] =
                    PeerConfig(publicKey, allowedIPs, storeOps + 1)]
    /\ op' = [kind |-> "AddPeer", key |-> publicKey, addr |-> allowedIPs,
              pc |-> "save", data |-> MarshalIndent(peers')]
    /\ storeOps' = storeOps + 1
    /\ lastOp' = [lastOp EXCEPT ![publicKey] =
                    [kind |-> "AddPeer", addr |-> allowedIPs, status |-> "pending"]]
    /\ pre' = fs[FilePath]
    /\ post' = File(MarshalIndent(peers'))
    /\ rebuilt' = FALSE
    /\ UNCHANGED <<fs, proc, allocVars, concVars, serverVars, clientVars, deviceVars, planeVars, reader>>

\* RemovePeer(publicKey) up to the call of save
RemovePeer(publicKey) ==
    /\ proc = "up" /\ CanLock /\ storeOps < MaxStoreOps
    /\ storeMu' = TRUE
    /\ peers' = [peers EXCEPT ![publicKey] = NoPeer]
    /\ op' = [kind |-> "RemovePeer", key |-> publicKey, addr |-> "",
              pc |-> "save", data |-> MarshalIndent(peers')]
    /\ storeOps' = storeOps + 1
    /\ lastOp' = [lastOp EXCEPT ![publicKey] =
                    [kind |-> "RemovePeer", addr |-> "", status |-> "pending"]]
    /\ pre' = fs[FilePath]
    /\ post' = File(MarshalIndent(peers'))
    /\ rebuilt' = FALSE
    /\ UNCHANGED <<fs, proc, allocVars, concVars, serverVars, clientVars, deviceVars, planeVars, reader>>

\* save, os.WriteFile(tempPath, ...): the file is created or truncated
saveWriteOpen ==
    /\ op.pc = "save"
    /\ fs' = [fs EXCEPT ![TempPath(FilePath)] = File(<<>>)]
    /\ op' = [op EXCEPT !.pc = "write"]
    /\ UNCHANGED <<peers, proc, storeMu, storeOps, lastOp, pre, post, rebuilt,
                   allocVars, concVars, serverVars, clientVars, deviceVars, planeVars, reader>>

\* save, os.WriteFile(tempPath, ...): the file cannot be opened
saveWriteOpenFail ==
    /\ op.pc = "save"
    /\ Return("err")
    /\ UNCHANGED <<fs, peers, proc, storeOps, pre, post, rebuilt, allocVars, concVars, serverVars, clientVars, deviceVars, planeVars, reader>>

\* save, os.WriteFile(tempPath, ...): the next part of data reaches the file
saveWrite ==
    /\ op.pc = "write"
    /\ LET tempPath == TempPath(FilePath)
           n == Len(fs[tempPath].data) + 1
       IN  /\ n <= Len(op.data)
           /\ fs' = [fs EXCEPT ![tempPath].data = Append(@, op.data[n])]
           /\ op' = [op EXCEPT !.pc = IF n = Len(op.data) THEN "rename" ELSE "write"]
    /\ UNCHANGED <<peers, proc, storeMu, storeOps, lastOp, pre, post, rebuilt,
                   allocVars, concVars, serverVars, clientVars, deviceVars, planeVars, reader>>

\* save, os.WriteFile(tempPath, ...): the write fails part of the way
saveWriteFail ==
    /\ op.pc = "write"
    /\ Return("err")
    /\ UNCHANGED <<fs, peers, proc, storeOps, pre, post, rebuilt, allocVars, concVars, serverVars, clientVars, deviceVars, planeVars, reader>>

\* save, os.Rename(tempPath, ps.filePath) and the return of nil
saveRename ==
    /\ op.pc = "rename"
    /\ fs' = Rename(fs, TempPath(FilePath), FilePath)
    /\ Return("ok")
    /\ UNCHANGED <<peers, proc, storeOps, pre, post, rebuilt, allocVars, concVars, serverVars, clientVars, deviceVars, planeVars, reader>>

\* save, os.Rename fails: os.Remove(tempPath) and the return of the error
saveRenameFail ==
    /\ op.pc = "rename"
    /\ fs' = Remove(fs, TempPath(FilePath))
    /\ Return("err")
    /\ UNCHANGED <<peers, proc, storeOps, pre, post, rebuilt, allocVars, concVars, serverVars, clientVars, deviceVars, planeVars, reader>>

\* the process dies: the memory is lost, the files stay
Crash ==
    /\ proc = "up"
    /\ proc' = "down"
    /\ peers' = EmptyPeers
    /\ storeMu' = FALSE
    /\ op' = NoOp
    /\ lastOp' = [k \in PublicKeys |->
                    IF lastOp[k].status = "pending"
                    THEN [lastOp[k] EXCEPT !.status = "crashed"] ELSE lastOp[k]]
    /\ rebuilt' = FALSE
    /\ UNCHANGED <<fs, storeOps, pre, post, allocVars, concVars, serverVars, clientVars, deviceVars, planeVars, reader>>

\* the process starts again: NewPeerStore(dataDir) on the same directory
NewPeerStore ==
    /\ proc = "down"
    /\ LET r == load(fs, FilePath)
       IN  /\ proc' = IF r.err = "nil" THEN "up" ELSE "failed"
           /\ peers' = r.peers
           /\ rebuilt' = (r.err = "nil")
    /\ UNCHANGED <<fs, storeMu, op, storeOps, lastOp, pre, post, allocVars, concVars, serverVars, clientVars, deviceVars, planeVars, reader>>

NextStore ==
    \/ \E publicKey \in PublicKeys, allowedIPs \in AllowedIPsTexts :
            AddPeer(publicKey, allowedIPs)
    \/ \E publicKey \in PublicKeys : RemovePeer(publicKey)
    \/ saveWriteOpen
    \/ saveWriteOpenFail
    \/ saveWrite
    \/ saveWriteFail
    \/ saveRename
    \/ saveRenameFail
    \/ Crash
    \/ NewPeerStore

SpecStore == InitPeerStore /\ [][NextStore]_vars

(***************************************************************************)
(* Properties of the peer store under SpecStore.                           *)
(***************************************************************************)
\* what NewPeerStore would load from the data directory as it is now
Reconstructed == load(fs, FilePath)

\* the map m shows the latest call on k: an added key with its address, a
\* removed key not at all
Shows(m, k) ==
    IF lastOp[k].kind = "AddPeer"
    THEN /\ k \in DOMAIN ListPeers(m)
         /\ ListPeers(m)[k].PublicKey = k
         /\ ListPeers(m)[k].AllowedIPs = lastOp[k].addr
    ELSE k \notin DOMAIN ListPeers(m)

Durable(k) ==
    /\ Reconstructed.err = "nil"
    /\ Shows(Reconstructed.peers, k)
    /\ rebuilt => Shows(peers, k)

C10_OldOrNewDocument ==
    /\ fs[FilePath] \in {pre, post}
    /\ Reconstructed.err = "nil"
    /\ proc # "failed"
    /\ rebuilt => peers \in {load([fs EXCEPT ![FilePath] = pre], FilePath).peers,
                             load([fs EXCEPT ![FilePath] = post], FilePath).peers}

\* the process crashed between the write of the temporary file and the
\* rename, and the store rebuilt afterwards holds the old mapping: the
\* whole new document lies in the temporary file, the old one in the
\* canonical file
C10_Witness ==
    /\ rebuilt /\ proc = "up"
    /\ \E k \in PublicKeys : lastOp[k].status = "crashed"
    /\ fs[TempPath(FilePath)] = post
    /\ fs[FilePath] = pre
    /\ pre.exists /\ pre # post
    /\ peers = Unmarshal(pre.data).peers
    /\ \E k \in PublicKeys : peers[k].present

(***************************************************************************)
(* SpecLoad: NewPeerStore on a data directory whose canonical file holds   *)
(* any content: no file, an empty file, or any sequence of tokens, a       *)
(* document or not.                                                        *)
(***************************************************************************)
MaxDocLen == 4

DocTokens ==
    {OpenBrace, CloseBrace}
        \cup {Entry(k, PeerConfig(k, a, 1)) : k \in PublicKeys, a \in AllowedIPsTexts}

Files == {NoFile} \cup {File(data) : data \in SeqsUpTo(DocTokens, MaxDocLen)}

InitLoad ==
    /\ \E file \in Files :
          /\ fs = [p \in Paths |-> IF p = FilePath THEN file ELSE NoFile]
          /\ pre = file
          /\ post = file
    /\ peers = EmptyPeers
    /\ proc = "down"
    /\ storeMu = FALSE
    /\ op = NoOp
    /\ storeOps = 0
    /\ lastOp = [k \in PublicKeys |-> NoLast]
    /\ rebuilt = FALSE
    /\ InitConc(DefaultConfig)
    /\ InitServer
    /\ InitClient(ClientConfig([host |-> "203.0.113.5", port |-> "51820"], "10.0.0.1", "priv"),
                  {DefaultRoute})
    /\ InitDevice
    /\ InitPlane
    /\ alloc = [m \in Modes |->
                  NewAllocator([DefaultConfig EXCEPT !.EnableOptimizations = (m = "optimized")]).a]
    /\ calls = 0
    /\ last = NoCall
    /\ prev = NoResult

NextLoad ==
    \/ NewPeerStore
    \/ Crash

SpecLoad == InitLoad /\ [][NextLoad]_vars

\* data is a complete document: an opening brace, entries, a closing brace
WellFormed(data) ==
    /\ Len(data) >= 2
    /\ Head(data) = OpenBrace
    /\ data[Len(data)] = CloseBrace
    /\ \A i \in 2..(Len(data) - 1) : data[i] \notin {OpenBrace, CloseBrace}

\* the mapping m holds what the document data says: for each key the record
\* of its last entry, and no key without an entry
HoldsContents(m, data) ==
    \A k \in PublicKeys :
        LET at == {i \in 1..Len(data) : data[i].t = "entry" /\ data[i].k = k}
        IN  IF at = {} THEN ~m[k].present
            ELSE \E i \in at : /\ \A j \in at : j <= i
                               /\ m[k] = data[i].v

\* C11: NewPeerStore on an absent or empty canonical file succeeds with an
\* empty mapping; on a non-empty file that does not parse it fails, returns
\* no store and leaves the file as it is; on a file that parses it succeeds
\* with the mapping the file holds.
C11_ConstructionByFile ==
    proc # "down" =>
        LET file == fs[FilePath]
        IN  /\ file = pre
            /\ IF ~file.exists \/ Len(file.data) = 0
               THEN proc = "up" /\ \A k \in PublicKeys : ~peers[k].present
               ELSE IF ~WellFormed(file.data)
               THEN proc = "failed" /\ ~rebuilt /\ peers = EmptyPeers
               ELSE proc = "up" /\ HoldsContents(peers, file.data)

\* construction has failed on a document cut short after its first entry
C11_Witness ==
    /\ proc = "failed"
    /\ Len(fs[FilePath].data) = 2
    /\ fs[FilePath].data[1] = OpenBrace
    /\ fs[FilePath].data[2].t = "entry"

(***************************************************************************)
(* Properties of the records of the peer store under SpecStore.            *)
(***************************************************************************)
\* GetPeer(publicKey): (peer, exists)
GetPeer(m, publicKey) == [peer |-> m[publicKey], exists |-> m[publicKey].present]

\* C12: a record is immutable once created: as long as the store holds a
\* record for a public key, GetPeer and ListPeers return the same AllowedIPs
\* and RegisteredAt for it, also after a further AddPeer with the same key.
C12_RecordImmutable ==
    [][\A k \in PublicKeys :
          (GetPeer(peers, k).exists /\ GetPeer(peers', k).exists)
              => /\ GetPeer(peers', k).peer.AllowedIPs = GetPeer(peers, k).peer.AllowedIPs
                 /\ GetPeer(peers', k).peer.RegisteredAt = GetPeer(peers, k).peer.RegisteredAt
                 /\ ListPeers(peers')[k] = ListPeers(peers)[k]]_vars

(***************************************************************************)
(* SpecServer: sequential calls on one VPNServer over a UserspaceBackend   *)
(* and a PeerStore.  Every call is one action, since each method holds     *)
(* VPNServer.mu from entry to return; the faults of the device and of the  *)
(* file system are inputs of the call.                                     *)
(***************************************************************************)
MaxServerCalls == 4

\* the configurations passed to Start: two valid ones, and one for each way
\* validateConfig rejects
ServerConfigs ==
    {ServerConfig("wg0", "priv", 51820, "10.0.0.1"),
     ServerConfig("wg1", "priv", MaxTCPUDPPort, "10.0.0.1"),
     ServerConfig("", "priv", 51820, "10.0.0.1"),
     ServerConfig("wg0", "", 51820, "10.0.0.1"),
     ServerConfig("wg0", "short", 51820, "10.0.0.1"),
     ServerConfig("wg0", "notbase64", 51820, "10.0.0.1"),
     ServerConfig("wg0", "priv", 0, "10.0.0.1"),
     ServerConfig("wg0", "priv", 0 - 1, "10.0.0.1"),
     ServerConfig("wg0", "priv", MaxTCPUDPPort + 1, "10.0.0.1"),
     ServerConfig("wg0", "priv", 51820, "")}

\* which of NewWireGuardDevice, the device's IpcSet and device.Start succeed
DeviceUp == [create |-> TRUE, configure |-> TRUE, up |-> TRUE]
DeviceOutcomes ==
    {[create |-> FALSE, configure |-> FALSE, up |-> FALSE],
     [create |-> TRUE, configure |-> FALSE, up |-> FALSE],
     [create |-> TRUE, configure |-> TRUE, up |-> FALSE],
     DeviceUp}

\* for which persisted peers the backend accepts the replay: only a peer of
\* the registry m can be rejected
ReplayOutcomes(m) ==
    {replay \in [PublicKeys -> BOOLEAN] :
        \A k \in PublicKeys : ~m[k].present => replay[k]}

AllAccepted == [k \in PublicKeys |-> TRUE]

\* the call named is among the calls made: the outcome of a call that is not
\* made is not an input
Drawn(log, name) == \E i \in 1..Len(log) : log[i] = name

\* the public keys and the addresses clients register with
ClientKeys == PublicKeys \cup {"short", "notbase64"}
ClientIPs == {"10.0.0.2", "10.0.0.3"}

\* the peer store files a server can find when it is constructed
PersistedFiles ==
    {NoFile, File(MarshalIndent([EmptyPeers EXCEPT
                     !["k1"] = PeerConfig("k1", "10.0.0.2/32", 0)]))}

ServerCall(name, r, args, res) ==
    [op |-> name, err |-> r.err, log |-> r.log, args |-> args, res |-> res]

\* NewVPNServer(NewUserspaceBackend(), dataDir)
InitVPNServer ==
    /\ \E file \in PersistedFiles : InitStore(file)
    /\ InitConc(DefaultConfig)
    /\ InitServer
    /\ InitClient(ClientConfig([host |-> "203.0.113.5", port |-> "51820"], "10.0.0.1", "priv"),
                  {DefaultRoute})
    /\ InitDevice
    /\ InitPlane
    /\ alloc = [m \in Modes |->
                  NewAllocator(Config(DefaultConfig.CIDR, DefaultConfig.Gateway,
                                      m = "optimized")).a]
    /\ calls = 0
    /\ last = NoCall
    /\ prev = NoResult

\* the state after a call that returned r
Returns(name, r, args, res) ==
    /\ srv' = r.srv
    /\ backend' = r.ub
    /\ peers' = r.peers
    /\ fs' = r.fs
    /\ srvLast' = ServerCall(name, r, args, res)
    /\ srvCalls' = srvCalls + 1

CallStart(config, dev, replay) ==
    /\ srvCalls < MaxServerCalls
    /\ stop.pc = "idle"
    /\ \E r \in {ServerStart(srv, backend, peers, fs, config, dev, replay)} :
          /\ Drawn(r.log, "NewWireGuardDevice") \/ dev = DeviceUp
          /\ Drawn(r.log, "peerStore.ListPeers") \/ replay = AllAccepted
          /\ Returns("Start", r,
                     [config |-> config, dev |-> dev, replay |-> replay], <<>>)
    /\ UNCHANGED <<proc, storeMu, op, storeOps, lastOp, pre, post, rebuilt,
                   allocVars, concVars, stop, clientVars, deviceVars, planeVars, reader>>

CallStop ==
    /\ srvCalls < MaxServerCalls
    /\ stop.pc = "idle"
    /\ \E r \in {ServerStop(srv, backend, peers, fs)} :
          Returns("Stop", r, <<>>, <<>>)
    /\ UNCHANGED <<proc, storeMu, op, storeOps, lastOp, pre, post, rebuilt,
                   allocVars, concVars, stop, clientVars, deviceVars, planeVars, reader>>

CallAddClient(publicKey, clientIP, ipc, outcome) ==
    /\ srvCalls < MaxServerCalls
    /\ stop.pc = "idle"
    /\ \E r \in {ServerAddClient(srv, backend, peers, fs, publicKey, clientIP,
                                 storeOps + 1, ipc, outcome)} :
          /\ Drawn(r.log, "device.IpcSet") \/ ipc
          /\ Drawn(r.log, "peerStore.AddPeer") \/ outcome = "ok"
          /\ Returns("AddClient", r,
                     [publicKey |-> publicKey, clientIP |-> clientIP,
                      ipc |-> ipc, outcome |-> outcome], <<>>)
          /\ storeOps' = IF Drawn(r.log, "peerStore.AddPeer")
                         THEN storeOps + 1 ELSE storeOps
    /\ UNCHANGED <<proc, storeMu, op, lastOp, pre, post, rebuilt,
                   allocVars, concVars, stop, clientVars, deviceVars, planeVars, reader>>

CallRemoveClient(publicKey, ipc, outcome) ==
    /\ srvCalls < MaxServerCalls
    /\ stop.pc = "idle"
    /\ \E r \in {ServerRemoveClient(srv, backend, peers, fs, publicKey, ipc, outcome)} :
          /\ Drawn(r.log, "device.IpcSet") \/ ipc
          /\ Drawn(r.log, "peerStore.RemovePeer") \/ outcome = "ok"
          /\ Returns("RemoveClient", r,
                     [publicKey |-> publicKey, ipc |-> ipc, outcome |-> outcome], <<>>)
          /\ storeOps' = IF Drawn(r.log, "peerStore.RemovePeer")
                         THEN storeOps + 1 ELSE storeOps
    /\ UNCHANGED <<proc, storeMu, op, lastOp, pre, post, rebuilt,
                   allocVars, concVars, stop, clientVars, deviceVars, planeVars, reader>>

CallGetConnectedClients ==
    /\ srvCalls < MaxServerCalls
    /\ stop.pc = "idle"
    /\ \E r \in {ServerGetConnectedClients(srv, backend)} :
          /\ srvLast' = ServerCall("GetConnectedClients", r, <<>>, r.peers)
          /\ srvCalls' = srvCalls + 1
    /\ UNCHANGED <<srv, backend, storeVars, allocVars, concVars, stop, clientVars, deviceVars, planeVars, reader>>

CallGetServerInfo ==
    /\ srvCalls < MaxServerCalls
    /\ stop.pc = "idle"
    /\ \E r \in {ServerGetServerInfo(srv)} :
          /\ srvLast' = ServerCall("GetServerInfo", r, <<>>, r.info)
          /\ srvCalls' = srvCalls + 1
    /\ UNCHANGED <<srv, backend, storeVars, allocVars, concVars, stop, clientVars, deviceVars, planeVars, reader>>

NextServer ==
    \/ \E config \in ServerConfigs, dev \in DeviceOutcomes, replay \in ReplayOutcomes(peers) :
          CallStart(config, dev, replay)
    \/ CallStop
    \/ \E publicKey \in ClientKeys, clientIP \in ClientIPs, ipc \in BOOLEAN,
          outcome \in SaveOutcomes :
          CallAddClient(publicKey, clientIP, ipc, outcome)
    \/ \E publicKey \in ClientKeys, ipc \in BOOLEAN, outcome \in SaveOutcomes :
          CallRemoveClient(publicKey, ipc, outcome)
    \/ CallGetConnectedClients
    \/ CallGetServerInfo

SpecServer == InitVPNServer /\ [][NextServer]_vars

(***************************************************************************)
(* Claims about the server.                                                *)
(***************************************************************************)
\* the call that has just returned is a call of the method named
Called(name) == srvLast.op = name /\ srvCalls > 0

\* the persisted peers the backend rejected in the replay of the latest Start
Rejected ==
    {k \in PublicKeys :
        Drawn(srvLast.log, "slog.Warn: Failed to restore peer " \o k)}

\* peer k of the registry is in the backend b with its allowed address, and
\* GetPeers lists it so
InBackend(b, m, k) ==
    /\ b.peers[k] = AllowedIPs(<<m[k].AllowedIPs>>)
    /\ PeerInfo(k, <<m[k].AllowedIPs>>) \in BackendGetPeers(b).peers

\* C13: when a Start has succeeded and the backend rejected none of the
\* persisted peers in the replay, every peer of the registry is in the
\* backend with its allowed address: so for a server that ran with peers
\* added through AddClient, was stopped, and is started again.
C13_ReplayOnStart ==
    (Called("Start") /\ srvLast.err = "nil" /\ Rejected = {})
        => \A k \in DOMAIN ListPeers(peers) : InBackend(backend, peers, k)

\* C13 witness: the fourth call is a successful Start, which follows a Stop;
\* the registry holds k1 and k2, k2 added through AddClient in this run, and
\* the backend lists both
C13_Witness ==
    /\ Called("Start") /\ srvLast.err = "nil" /\ Rejected = {}
    /\ srvCalls = 4
    /\ DOMAIN ListPeers(peers) = {"k1", "k2"}
    /\ peers["k2"].RegisteredAt > 0
    /\ load(fs, FilePath).err = "nil"
    /\ load(fs, FilePath).peers = peers
    /\ \A k \in {"k1", "k2"} : InBackend(backend, peers, k)

\* the persisted peers for which the backend's AddPeer fails in the replay of
\* the latest Start
Refused == {k \in PublicKeys : Called("Start") /\ ~srvLast.args.replay[k]}

\* C14: a Start in whose replay the backend rejects a persisted peer still
\* returns nil and leaves the server running; every persisted peer that was
\* not rejected is in the backend, the rejection is logged, and the registry,
\* the rejected record included, is as it was.
C14_ReplayBestEffort ==
    [][(srvCalls' = srvCalls + 1 /\ srvLast'.op = "Start" /\ Refused' # {})
         => /\ srvLast'.err = "nil"
            /\ srv'.running
            /\ Rejected' = Refused'
            /\ \A k \in DOMAIN ListPeers(peers) \ Refused' :
                  InBackend(backend', peers', k)
            /\ \A k \in Refused' : peers[k].present /\ peers'[k] = peers[k]
            /\ peers' = peers
            /\ fs' = fs]_vars

\* C14 witness: a Start has returned nil with k1 rejected in the replay: the
\* server runs, k2 is in the backend, k1 is not, and k1 is in the registry
C14_Witness ==
    /\ Called("Start") /\ srvLast.err = "nil"
    /\ Refused = {"k1"}
    /\ srv.running
    /\ DOMAIN ListPeers(peers) = {"k1", "k2"}
    /\ InBackend(backend, peers, "k2")
    /\ ~backend.peers["k1"].present

\* C15: a Start on a running server returns an error and changes nothing:
\* the server still runs with the configuration it had, which is the one its
\* backend was started with, and the backend, its peers, the registry and
\* the file are as they were; no call reaches the backend.
C15_StartWhileRunning ==
    [][(srvCalls' = srvCalls + 1 /\ srvLast'.op = "Start" /\ srv.running)
         => /\ srvLast'.err = "VPN server already running"
            /\ srvLast'.log = <<>>
            /\ srv'.running
            /\ srv'.config = srv.config
            /\ validateConfig(srv.config) = "nil"
            /\ backend.config = srv.config
            /\ backend' = backend
            /\ peers' = peers
            /\ fs' = fs]_vars

\* C15 witness: a Start with another configuration has failed on a running
\* server, which keeps the configuration of the earlier Start
C15_Witness ==
    /\ Called("Start")
    /\ srvLast.err = "VPN server already running"
    /\ srv.running
    /\ backend.running
    /\ srvLast.args.config # srv.config
    /\ validateConfig(srvLast.args.config) = "nil"
    /\ \E k \in PublicKeys : backend.peers[k].present

\* a configuration the server must reject: an empty interface name, a private
\* key that does not decode to 32 bytes, a listen port outside 1..65535, or
\* an empty server address
Invalid(config) ==
    \/ config.InterfaceName = ""
    \/ KeyBytes(config.PrivateKey) # 32
    \/ config.ListenPort \notin 1..MaxTCPUDPPort
    \/ config.ServerIP = ""

\* C16: a Start with an invalid configuration on a stopped server returns an
\* error and leaves the server stopped, and makes no call on the backend:
\* the backend is as it was.
C16_ValidatesBeforeActing ==
    [][(srvCalls' = srvCalls + 1 /\ srvLast'.op = "Start" /\ ~srv.running
            /\ Invalid(srvLast'.args.config))
         => /\ srvLast'.err # "nil"
            /\ ~srv'.running
            /\ srv' = srv
            /\ ~Drawn(srvLast'.log, "backend.Start")
            /\ srvLast'.log = <<>>
            /\ backend' = backend]_vars

\* C16 witness: every invalid configuration has been passed to a Start on a
\* stopped server: here the one with port 65536, refused for its port
C16_Witness ==
    /\ Called("Start")
    /\ ~srv.running
    /\ srvLast.args.config.ListenPort = MaxTCPUDPPort + 1
    /\ srvLast.err = "invalid configuration: invalid listen port"
    /\ ~backend.running
    /\ backend.device.nil

\* C17: a Stop on a stopped server, one never started or one already
\* stopped, returns nil, makes no call on the backend, and leaves the server
\* stopped and everything else as it was; so the second of two Stops in a
\* row returns nil.
C17_StopIdempotent ==
    [][(srvCalls' = srvCalls + 1 /\ srvLast'.op = "Stop")
         => /\ srvLast'.err = "nil"
            /\ ~srv'.running
            /\ ~srv.running
                 => /\ srvLast'.log = <<>>
                    /\ srv' = srv
                    /\ backend' = backend
                    /\ peers' = peers
                    /\ fs' = fs]_vars

\* C17 witness: Start, Stop, Stop: the second Stop finds a server that has
\* run, with its configuration kept, and returns nil without a backend call
C17_Witness ==
    /\ Called("Stop")
    /\ srvLast.err = "nil"
    /\ srvLast.log = <<>>
    /\ ~srv.running
    /\ srvCalls = 3
    /\ srv.config # ZeroConfig
    /\ ~backend.running

\* the error the methods return on a stopped server
NotRunning == "VPN server not running"

\* the methods that require a running server
NeedRunning == {"AddClient", "RemoveClient", "GetConnectedClients", "GetServerInfo"}

\* C18: on a stopped server AddClient, RemoveClient, GetConnectedClients and
\* GetServerInfo each return the not-running error, make no call, and change
\* neither the backend nor the registry and its file; and no call returns
\* that error on a running server, nor does Start or Stop return it.
C18_NotRunningError ==
    [][srvCalls' = srvCalls + 1
         => /\ (srvLast'.op \in NeedRunning /\ ~srv.running)
                 => /\ srvLast'.err = NotRunning
                    /\ srvLast'.log = <<>>
                    /\ srv' = srv
                    /\ backend' = backend
                    /\ peers' = peers
                    /\ fs' = fs
            /\ srvLast'.err = NotRunning
                 => srvLast'.op \in NeedRunning /\ ~srv.running]_vars

\* C18 witness: an AddClient with a well-formed key has failed with the
\* not-running error on a server stopped after a run, whose registry holds a
\* peer
C18_Witness ==
    /\ Called("AddClient")
    /\ srvLast.err = NotRunning
    /\ srvLast.args.publicKey = "k2"
    /\ ~srv.running
    /\ srv.config # ZeroConfig
    /\ DOMAIN ListPeers(peers) = {"k1"}
    /\ ~backend.running

\* the backend call of the AddClient or RemoveClient that takes the step
\* fails: on the backend as it was, with the arguments and the IpcSet
\* outcome of the call
BackendFails ==
    \/ /\ srvLast'.op = "AddClient"
       /\ BackendAddPeer(backend, srvLast'.args.publicKey,
                         <<srvLast'.args.clientIP \o "/32">>,
                         srvLast'.args.ipc).err # "nil"
    \/ /\ srvLast'.op = "RemoveClient"
       /\ BackendRemovePeer(backend, srvLast'.args.publicKey,
                            srvLast'.args.ipc).err # "nil"

\* C19: when the backend's AddPeer fails in an AddClient on a running
\* server, or its RemovePeer in a RemoveClient, the call returns an error,
\* the store is not called, and the registry and its file are as they were.
C19_BackendFaultFatal ==
    [][(srvCalls' = srvCalls + 1 /\ srv.running /\ BackendFails)
         => /\ srvLast'.err # "nil"
            /\ ~Drawn(srvLast'.log, "peerStore.AddPeer")
            /\ ~Drawn(srvLast'.log, "peerStore.RemovePeer")
            /\ peers' = peers
            /\ fs' = fs
            /\ storeOps' = storeOps]_vars

\* C19 witness: a RemoveClient of the registered k1 has failed in the
\* backend's IpcSet: it returned the error, and k1 is in the registry and in
\* the file
C19_Witness ==
    /\ Called("RemoveClient")
    /\ srvLast.args.publicKey = "k1"
    /\ ~srvLast.args.ipc
    /\ srvLast.err = "failed to remove client peer: failed to remove peer via IPC"
    /\ srv.running
    /\ peers["k1"].present
    /\ load(fs, FilePath).peers["k1"].present
    /\ backend.peers["k1"].present

\* C20: when, in an AddClient on a running server, the backend's AddPeer
\* succeeds and the store's AddPeer fails to save, AddClient returns nil and
\* logs the failure, and the peer is in the backend with the allowed address
\* clientIP/32, listed by GetPeers: the backend change is not undone.  The
\* file is not replaced, while the registry in memory holds the new record.
C20_PersistenceFailureSoft ==
    [][(/\ srvCalls' = srvCalls + 1 /\ srv.running /\ srvLast'.op = "AddClient"
        /\ ~BackendFails
        /\ srvLast'.args.outcome # "ok")
         => /\ srvLast'.err = "nil"
            /\ Drawn(srvLast'.log, "slog.Warn: Failed to persist peer configuration")
            /\ backend'.peers[srvLast'.args.publicKey]
                 = AllowedIPs(<<srvLast'.args.clientIP \o "/32">>)
            /\ PeerInfo(srvLast'.args.publicKey, <<srvLast'.args.clientIP \o "/32">>)
                 \in BackendGetPeers(backend').peers
            /\ fs'[FilePath] = fs[FilePath]
            /\ peers'[srvLast'.args.publicKey].present
            /\ peers'[srvLast'.args.publicKey].AllowedIPs
                 = srvLast'.args.clientIP \o "/32"]_vars

\* C20 witness: an AddClient of k2 has returned nil though the rename of the
\* store's file failed: k2 is in the backend with 10.0.0.3/32 and is not in
\* the file
C20_Witness ==
    /\ Called("AddClient")
    /\ srvLast.err = "nil"
    /\ srvLast.args.publicKey = "k2"
    /\ srvLast.args.clientIP = "10.0.0.3"
    /\ srvLast.args.outcome = "rename"
    /\ backend.peers["k2"] = AllowedIPs(<<"10.0.0.3/32">>)
    /\ PeerInfo("k2", <<"10.0.0.3/32">>) \in BackendGetPeers(backend).peers
    /\ ~load(fs, FilePath).peers["k2"].present

(***************************************************************************)
(* SpecStop: VPNServer.Stop(ctx) in steps.  Stop takes VPNServer.mu and    *)
(* calls backend.Stop, which calls device.Stop; the context with the       *)
(* shutdown deadline is passed down and read by neither.  The engine's     *)
(* Stop returns, returns an error, or does not return.                     *)
(***************************************************************************)
Engines == {"returns", "error", "blocks"}

\* Stop on a running server: s.mu.Lock(), then the call of s.backend.Stop(ctx)
StopEnter(engine) ==
    /\ srvCalls < MaxServerCalls
    /\ stop.pc = "idle"
    /\ srv.running
    /\ stop' = [pc |-> "backend.Stop", engine |-> engine, expired |-> FALSE]
    /\ UNCHANGED <<srv, backend, srvLast, srvCalls, storeVars, allocVars, concVars, clientVars, deviceVars, planeVars, reader>>

\* the deadline of the context passes while Stop is in progress
DeadlineExpires ==
    /\ stop.pc = "backend.Stop"
    /\ ~stop.expired
    /\ stop' = [stop EXCEPT !.expired = TRUE]
    /\ UNCHANGED <<srv, backend, srvLast, srvCalls, storeVars, allocVars, concVars, clientVars, deviceVars, planeVars, reader>>

\* device.Stop returns, with an error or without: the backend clears its
\* state, Stop clears running and returns nil
StopReturn ==
    /\ stop.pc = "backend.Stop"
    /\ stop.engine # "blocks"
    /\ \E r \in {ServerStop(srv, backend, peers, fs)} :
          /\ srv' = r.srv
          /\ backend' = r.ub
          /\ srvLast' = [op |-> "Stop", err |-> r.err,
                         log |-> r.log \o (IF stop.engine = "error"
                                          THEN <<"slog.Error: Error stopping WireGuard device">>
                                          ELSE <<>>),
                         args |-> [engine |-> stop.engine, expired |-> stop.expired],
                         res |-> <<>>]
    /\ srvCalls' = srvCalls + 1
    /\ stop' = NoStop
    /\ UNCHANGED <<storeVars, allocVars, concVars, clientVars, deviceVars, planeVars, reader>>

NextStop ==
    \/ \E config \in ServerConfigs, dev \in DeviceOutcomes, replay \in ReplayOutcomes(peers) :
          CallStart(config, dev, replay)
    \/ \E publicKey \in ClientKeys, clientIP \in ClientIPs, ipc \in BOOLEAN,
          outcome \in SaveOutcomes :
          CallAddClient(publicKey, clientIP, ipc, outcome)
    \/ \E engine \in Engines : StopEnter(engine)
    \/ DeadlineExpires
    \/ StopReturn

\* a device.Stop that returns lets Stop go on, and the deadline passes
SpecStop ==
    /\ InitVPNServer
    /\ [][NextStop]_vars
    /\ WF_vars(StopReturn)
    /\ WF_vars(DeadlineExpires)

\* C21: a Stop in progress on a running server ends, with the server
\* stopped, whatever the engine's Stop does: when it returns, when it returns
\* an error, and, by the deadline, when it does not return.
C21_StopTerminates ==
    (stop.pc = "backend.Stop") ~> (stop.pc = "idle" /\ ~srv.running)

(***************************************************************************)
(* SpecBackend: sequential calls on one UserspaceBackend, each method one  *)
(* action since it holds UserspaceBackend.mu from entry to return.         *)
(***************************************************************************)
\* the allowed-address lists peers are added with
AllowedLists ==
    {<<"10.0.0.2/32">>, <<"10.0.0.3/32">>, <<"10.0.0.2/32", "10.0.0.3/32">>}

\* the state after a backend call that returned r
BackendReturns(name, r, args, res) ==
    /\ backend' = r.ub
    /\ srvLast' = ServerCall(name, r, args, res)
    /\ srvCalls' = srvCalls + 1
    /\ UNCHANGED <<srv, stop, storeVars, allocVars, concVars, clientVars, deviceVars, planeVars, reader>>

CallBackendStart(config, dev) ==
    /\ srvCalls < MaxServerCalls
    /\ \E r \in {BackendStart(backend, config, dev)} :
          /\ Drawn(r.log, "NewWireGuardDevice") \/ dev = DeviceUp
          /\ BackendReturns("Start", r, [key |-> config.PrivateKey, config |-> config], <<>>)

CallBackendStop ==
    /\ srvCalls < MaxServerCalls
    /\ BackendReturns("Stop", BackendStop(backend), <<>>, <<>>)

CallBackendAddPeer(publicKey, allowedIPs, ipc) ==
    /\ srvCalls < MaxServerCalls
    /\ \E r \in {BackendAddPeer(backend, publicKey, allowedIPs, ipc)} :
          /\ Drawn(r.log, "device.IpcSet") \/ ipc
          /\ BackendReturns("AddPeer", r,
                            [key |-> publicKey, allowedIPs |-> allowedIPs], <<>>)

CallBackendRemovePeer(publicKey, ipc) ==
    /\ srvCalls < MaxServerCalls
    /\ \E r \in {BackendRemovePeer(backend, publicKey, ipc)} :
          /\ Drawn(r.log, "device.IpcSet") \/ ipc
          /\ BackendReturns("RemovePeer", r, [key |-> publicKey], <<>>)

CallBackendGetPeers ==
    /\ srvCalls < MaxServerCalls
    /\ \E r \in {BackendGetPeers(backend)} :
          BackendReturns("GetPeers", [ub |-> backend, err |-> r.err, log |-> <<>>],
                         <<>>, r.peers)

NextBackend ==
    \/ \E config \in ServerConfigs, dev \in DeviceOutcomes : CallBackendStart(config, dev)
    \/ CallBackendStop
    \/ \E publicKey \in ClientKeys, allowedIPs \in AllowedLists, ipc \in BOOLEAN :
          CallBackendAddPeer(publicKey, allowedIPs, ipc)
    \/ \E publicKey \in ClientKeys, ipc \in BOOLEAN : CallBackendRemovePeer(publicKey, ipc)
    \/ CallBackendGetPeers

SpecBackend == InitVPNServer /\ [][NextBackend]_vars

\* C22: a Start, AddPeer or RemovePeer of the backend with a key that does
\* not decode, or that decodes to other than 32 bytes, returns an error,
\* sends no configuration to the device, and leaves the backend's peers and
\* its running flag as they were.
C22_BadKeyRejected ==
    [][(/\ srvCalls' = srvCalls + 1
        /\ srvLast'.op \in {"Start", "AddPeer", "RemovePeer"}
        /\ KeyBytes(srvLast'.args.key) # 32)
         => /\ srvLast'.err # "nil"
            /\ ~Drawn(srvLast'.log, "device.IpcSet")
            /\ ~Drawn(srvLast'.log, "device.Start")
            /\ backend'.peers = backend.peers
            /\ backend'.running = backend.running
            /\ backend'.config = backend.config]_vars

\* C22 witness: on a running backend that tracks k1, an AddPeer with a key
\* of 16 bytes has been refused for its key
C22_Witness ==
    /\ Called("AddPeer")
    /\ srvLast.args.key = "short"
    /\ srvLast.err = "invalid public key format: key must be 32 bytes"
    /\ backend.running
    /\ backend.peers["k1"].present
    /\ ~backend.peers["k2"].present

\* what GetPeers lists for the backend b
Listed(b) == BackendGetPeers(b).peers

\* the entries of the list l for keys other than key
Others(l, key) == {p \in l : p.PublicKey # key}

\* C23: while the backend runs, the list of GetPeers has one PeerInfo for
\* each key, with empty endpoint and zero handshake and transfer fields; it
\* is empty after Start, a successful AddPeer replaces the entry of its key
\* by one with its allowed addresses, a successful RemovePeer takes the entry
\* of its key away, and both leave the entries of other keys as they were;
\* a failed call and GetPeers leave the list as it was, and GetPeers returns
\* it.
C23_ListPeersTracksCalls ==
    [][(srvCalls' = srvCalls + 1 /\ backend'.running)
         => /\ \A p, q \in Listed(backend') : p.PublicKey = q.PublicKey => p = q
            /\ \A p \in Listed(backend') :
                  p = PeerInfo(p.PublicKey, p.AllowedIPs)
            /\ ~backend.running => Listed(backend') = {}
            /\ backend.running =>
                  Listed(backend') =
                     IF srvLast'.op = "AddPeer" /\ srvLast'.err = "nil"
                     THEN Others(Listed(backend), srvLast'.args.key)
                             \cup {PeerInfo(srvLast'.args.key, srvLast'.args.allowedIPs)}
                     ELSE IF srvLast'.op = "RemovePeer" /\ srvLast'.err = "nil"
                     THEN Others(Listed(backend), srvLast'.args.key)
                     ELSE Listed(backend)
            /\ srvLast'.op = "GetPeers"
                  => srvLast'.err = "nil" /\ srvLast'.res = Listed(backend)]_vars

\* C23 witness: the fourth call, a RemovePeer of k1 that reached the device,
\* has succeeded, and the list holds k2 alone, with the two addresses it was
\* added with
C23_Witness ==
    /\ Called("RemovePeer")
    /\ srvLast.args.key = "k1"
    /\ srvLast.err = "nil"
    /\ srvCalls = 4
    /\ Listed(backend) = {PeerInfo("k2", <<"10.0.0.2/32", "10.0.0.3/32">>)}

(***************************************************************************)
(* SpecTunnel: sequential Connect and Disconnect calls on one              *)
(* TunnelManager, from every initial routing table.                        *)
(***************************************************************************)
MaxTunnelCalls == 3

\* the configurations of a client: a remote server, one with no tunnel
\* address known, an endpoint ":51820", an endpoint on 127.0.0.1, and a
\* private key that is not base64
ClientConfigs ==
    {ClientConfig([host |-> "203.0.113.5", port |-> "51820"], "10.0.0.1", "priv"),
     ClientConfig([host |-> "203.0.113.5", port |-> "51820"], "", "priv"),
     ClientConfig([host |-> "", port |-> "51820"], "10.0.0.1", "priv"),
     ClientConfig([host |-> "127.0.0.1", port |-> "51820"], "10.0.0.1", "priv"),
     ClientConfig([host |-> "203.0.113.5", port |-> "51820"], "10.0.0.1", "notbase64")}

InitialTables == {{}} \cup {{DefaultRoute} \cup rs : rs \in SUBSET OtherRoutes}

\* the outcomes of the commands a call runs: the step of the interface setup
\* that fails, whether the device's Stop succeeds, the destinations whose
\* "route add" and "route delete" fail, and what the probes give
Env(setup, stopOk, addFails, deleteFails, coarse, inner, print) ==
    [setup |-> setup, stop |-> stopOk, addFails |-> addFails,
     deleteFails |-> deleteFails, coarse |-> coarse, inner |-> inner, print |-> print]

QuietEnv == Env("ok", TRUE, {}, {}, TRUE, TRUE, "other")

\* the destinations whose command fails: none, the VPN subnet, the server's
\* host route, or all
FailSets ==
    {{}, {"10.0.0.0"}, {"203.0.113.5"},
     {"203.0.113.5", "127.0.0.1", "", "0.0.0.0", "128.0.0.0", "10.0.0.0"}}

ConnectEnvs ==
    {Env("create", TRUE, {}, {}, TRUE, TRUE, "other")}
    \cup {Env(setup, stopOk, {}, {}, TRUE, TRUE, "other") :
             setup \in {"ipc", "up", "index", "print"}, stopOk \in BOOLEAN}
    \cup {Env("ok", stopOk, addFails, {}, FALSE, TRUE, "other") :
             stopOk \in BOOLEAN, addFails \in FailSets}
    \cup {Env("ok", TRUE, addFails, {}, TRUE, TRUE, "other") : addFails \in FailSets}
    \cup {Env("ok", TRUE, addFails, {}, TRUE, FALSE, print) :
             addFails \in FailSets, print \in {"fails", "physical", "other"}}

DisconnectEnvs ==
    {Env("ok", stopOk, {}, deleteFails, TRUE, TRUE, "other") :
        stopOk \in BOOLEAN, deleteFails \in FailSets}

InitTunnel ==
    /\ InitStore(NoFile)
    /\ InitConc(DefaultConfig)
    /\ InitServer
    /\ \E cfg \in ClientConfigs, table \in InitialTables : InitClient(cfg, table)
    /\ InitDevice
    /\ InitPlane
    /\ alloc = [m \in Modes |->
                  NewAllocator(Config(DefaultConfig.CIDR, DefaultConfig.Gateway,
                                      m = "optimized")).a]
    /\ calls = 0
    /\ last = NoCall
    /\ prev = NoResult

\* the state after a TunnelManager call that returned r
TunnelReturns(name, r, env, atConnect) ==
    /\ tm' = r.tm
    /\ os' = r.sys
    /\ tmLast' = [op |-> name, err |-> r.err, out |-> r.out, env |-> env,
                  before |-> os, atConnect |-> atConnect]
    /\ tmCalls' = tmCalls + 1
    /\ UNCHANGED <<allocVars, concVars, storeVars, serverVars, deviceVars, planeVars, reader>>

CallConnect(env) ==
    /\ tmCalls < MaxTunnelCalls
    /\ tm.connected => env = QuietEnv
    /\ TunnelReturns("Connect", Connect(tm, os, env), env,
                     IF tm.connected THEN tmLast.atConnect ELSE os.routes)

CallDisconnect(env) ==
    /\ tmCalls < MaxTunnelCalls
    /\ ~tm.connected => env = QuietEnv
    /\ TunnelReturns("Disconnect", Disconnect(tm, os, env), env, tmLast.atConnect)

NextTunnel ==
    \/ \E env \in ConnectEnvs : CallConnect(env)
    \/ \E env \in DisconnectEnvs : CallDisconnect(env)

SpecTunnel == InitTunnel /\ [][NextTunnel]_vars

(***************************************************************************)
(* Claims about the client session, under SpecTunnel.                      *)
(***************************************************************************)
\* the call that has just returned is a call of name
Returning(name) == tmCalls' = tmCalls + 1 /\ tmLast'.op = name

\* the errors with which Connect and Disconnect turn a call down
WrongState == {"VPN is already connected", "VPN is not connected"}

\* C24: when a Connect call returns, the session is connected if the call
\* returned nil and not connected if it failed at a step of the setup
\* (interface, configuration, routing, probe); and a Connect that follows a
\* failed Connect is not turned down as "already connected".
C24_ConnectSettles ==
    [][Returning("Connect") =>
          /\ tmLast'.err = "nil" => tm'.connected
          /\ tmLast'.err \notin WrongState \cup {"nil"} => ~tm'.connected
          /\ (tmLast.op = "Connect" /\ tmLast.err \notin WrongState \cup {"nil"})
                => tmLast'.err # "VPN is already connected"]_vars

\* a Connect succeeds as the second call, after a Connect that failed and
\* left the interface up
C24_Witness ==
    /\ tmCalls = 2
    /\ tmLast.op = "Connect"
    /\ tmLast.err = "nil"
    /\ tm.connected
    /\ tmLast.before.tun

\* C25: a Connect on a connected session and a Disconnect on a session that
\* is not connected each return an error, make or stop no interface, add or
\* delete no route, and leave the session as it was.
C25_WrongStateRejected ==
    [][/\ (Returning("Connect") /\ tm.connected)
            => /\ tmLast'.err = "VPN is already connected"
               /\ tm' = tm
               /\ os' = os
       /\ (Returning("Disconnect") /\ ~tm.connected)
            => /\ tmLast'.err = "VPN is not connected"
               /\ tm' = tm
               /\ os' = os]_vars

\* a Disconnect is turned down on a session whose failed Connect left the
\* interface and routes through it, which stay
C25_Witness ==
    /\ tmLast.op = "Disconnect"
    /\ tmLast.err = "VPN is not connected"
    /\ ~tm.connected
    /\ os.tun
    /\ \E r \in os.routes : r.iface = "tun"
    /\ os = tmLast.before

\* Connect returned the error of a failed probe
ProbeFailed ==
    /\ tmLast.op = "Connect"
    /\ tmLast.err = "VPN handshake failed - interface created but cannot reach server"

\* C26: after a Connect that failed at the reachability probe, no route the
\* call installed is present, no device handle is held and the interface
\* the call created is gone.
C26_ProbeFailureUnwinds ==
    ProbeFailed =>
        /\ os.routes \subseteq tmLast.before.routes
        /\ tm.wgDevice.nil
        /\ os.tun = tmLast.before.tun

\* a Disconnect has just closed a session that a Connect had opened
SessionClosed ==
    /\ tmLast.op = "Disconnect"
    /\ tmLast.err = "nil"

\* C27: after a successful Connect followed by Disconnect, the routes
\* present are the routes that were present when Connect was called.
C27_RoutesReversed ==
    SessionClosed => os.routes = tmLast.atConnect

\* C28: the session deletes no route it did not add: every route that was
\* present when Connect was called, one to a destination the session
\* installs or failed to install included, is present after Disconnect.
C28_ForeignRoutesKept ==
    SessionClosed => tmLast.atConnect \subseteq os.routes

\* line is among the lines the call that has just returned printed
Printed(line) == \E i \in DOMAIN tmLast'.out : tmLast'.out[i] = line

\* C29: a Disconnect on a connected session returns nil and leaves the
\* session not connected; a route delete that fails and a device Stop that
\* fails are printed, and the other routes are still deleted, the device is
\* still stopped and the handle dropped.
C29_DisconnectCompletes ==
    [][(Returning("Disconnect") /\ tm.connected) =>
          LET env == tmLast'.env
              targets == CleanupTargets(tm.config)
          IN  /\ tmLast'.err = "nil"
              /\ ~tm'.connected
              /\ tm'.wgDevice.nil
              /\ env.stop => ~os'.tun
              /\ ~env.stop => Printed("Warning: failed to stop WireGuard device")
              /\ \A i \in DOMAIN targets :
                    IF targets[i].network \in env.deleteFails
                    THEN Printed("Route cleanup " \o targets[i].network)
                    ELSE ~\E r \in os'.routes : /\ r.network = targets[i].network
                                                /\ r.mask = targets[i].mask]_vars

\* a Disconnect whose delete of the VPN subnet's route and whose device Stop
\* both failed has returned nil, the session not connected, the server's
\* host route deleted
C29_Witness ==
    /\ SessionClosed
    /\ tmLast.env.deleteFails = {"10.0.0.0"}
    /\ ~tmLast.env.stop
    /\ ~tm.connected
    /\ os.tun
    /\ \E r \in tmLast.before.routes : r.network = "203.0.113.5"
    /\ ~\E r \in os.routes : r.network = "203.0.113.5"
    /\ \E r \in os.routes : r.network = "10.0.0.0" /\ r.iface = "tun"

C31_ConfigureAfterAssign ==
    [][(/\ srvCalls' = srvCalls + 1
        /\ srvLast'.op = "Start"
        /\ Drawn(srvLast'.log, "NewWireGuardDevice")
        /\ Len(srvLast'.log) > 1)
         => /\ srvLast'.log[1] = "NewWireGuardDevice"
            /\ KeyBytes(srvLast'.args.key) = 32 => srvLast'.log[2] = "device.IpcSet"
            /\ \A ok \in BOOLEAN :
                  /\ applyIPCConfig([backend EXCEPT !.device = NilDevice], ok).err
                        = "device not initialized"
                  /\ applyIPCConfig([backend EXCEPT !.device = NilDevice], ok).log = <<>>]_vars

\* a Start on a backend holding no handle has created the device, sent it
\* the configuration and started it
C31_Witness ==
    /\ srvCalls = 1
    /\ srvLast.op = "Start"
    /\ srvLast.err = "nil"
    /\ srvLast.log = <<"NewWireGuardDevice", "device.IpcSet", "device.Start">>
    /\ backend.running
    /\ backend.device = Device(TRUE)

(***************************************************************************)
(* The peer store's memory and its file, under SpecStore.                  *)
(***************************************************************************)
\* C39: whenever no AddPeer or RemovePeer is executing, the peers the store
\* holds in memory are the peers its file holds: a call that returned nil
\* has written them, a call that returned an error has left the memory as
\* it was.
C39_MemoryMatchesDisk ==
    (proc = "up" /\ ~storeMu) =>
        /\ Reconstructed.err = "nil"
        /\ Reconstructed.peers = peers

\* C38: a backend that is not running holds no device handle and tracks no
\* peer, initially, after Stop and after a Start that failed.
C38_StoppedBackendClean ==
    ~backend.running =>
        /\ backend.device.nil
        /\ backend.peers = EmptyBackendPeers

(***************************************************************************)
(* The steps of the client's setup and teardown, under SpecTunnel.         *)
(***************************************************************************)
\* the error of a Connect whose setup failed after the interface was made
SetupFailedAfterCreate(err) ==
    err \notin {"nil", "VPN is already connected",
                "VPN handshake failed - interface created but cannot reach server",
                Wrap("failed to setup WireGuard interface",
                     "failed to create WireGuard device")}

\* C36: when the generation of the configuration, its push to the device,
\* the device's start or the routing step of a Connect fails, the session
\* holds no device handle when the error is returned, the interface is gone
\* if the device's Stop succeeded, and no route is present that was not
\* there before the call.
C36_SetupFailureUnwinds ==
    [][(Returning("Connect") /\ SetupFailedAfterCreate(tmLast'.err)) =>
          /\ tm'.wgDevice.nil
          /\ ~tm'.connected
          /\ tmLast'.env.stop => ~os'.tun
          /\ os'.routes \subseteq os.routes]_vars

\* a Connect has failed at the routing step, with no default gateway in the
\* table, and left no handle and no interface
C36_Witness ==
    /\ tmLast.op = "Connect"
    /\ tmLast.err = Wrap("failed to setup WireGuard interface",
                         Wrap("failed to configure VPN routing",
                              "could not determine current default gateway"))
    /\ tm.wgDevice.nil
    /\ ~os.tun
    /\ os.routes = {}

\* the lines Disconnect prints for its "route delete" of network
DeleteLines(network) == {"Route cleanup " \o network, "Route removed " \o network}

\* the lines of out that a "route delete" printed, in their order
Deleted(config, out) ==
    LET targets == CleanupTargets(config)
    IN  SelectSeq(out, LAMBDA line :
                          \E i \in DOMAIN targets : line \in DeleteLines(targets[i].network))

\* C35 as stated: a Disconnect deletes the routes Connect installs in the
\* reverse of the order of their installation, and stops the device after
\* the last delete.
C35_ReverseOrder ==
    SessionClosed =>
        LET installed == SessionRoutes(tm.config, "192.168.1.1")
            deleted == Deleted(tm.config, tmLast.out)
            n == Len(installed)
        IN  /\ Len(deleted) = n
            /\ \A i \in 1..n : deleted[i] \in DeleteLines(installed[n + 1 - i].network)
            /\ \E j \in DOMAIN tmLast.out :
                  /\ tmLast.out[j] = "Stopping WireGuard interface..."
                  /\ \A i \in DOMAIN tmLast.out :
                        (\E l \in 1..n : tmLast.out[i] = deleted[l]) => i < j

\* C35 amended: a Disconnect deletes the routes through the tunnel in the
\* order of their installation (0.0.0.0/1, 128.0.0.0/1, the VPN subnet) and
\* then the server's host route, which Connect installs first; every delete
\* is attempted, and the device is stopped after the last of them.
C35_CleanupOrder ==
    SessionClosed =>
        LET targets == CleanupTargets(tm.config)
            deleted == Deleted(tm.config, tmLast.out)
            n == Len(targets)
        IN  /\ Len(deleted) = n
            /\ \A i \in 1..n : deleted[i] \in DeleteLines(targets[i].network)
            /\ IsRemote(tm.config) =>
                  /\ SessionRoutes(tm.config, "192.168.1.1")[1].network = ServerHost(tm.config)
                  /\ deleted[n] \in DeleteLines(ServerHost(tm.config))
            /\ \E j \in DOMAIN tmLast.out :
                  /\ tmLast.out[j] = "Stopping WireGuard interface..."
                  /\ \A i \in DOMAIN tmLast.out :
                        (\E l \in 1..n : tmLast.out[i] = deleted[l]) => i < j

\* a Disconnect has deleted the four routes of a session with a remote
\* server and then stopped the device
C35_Witness ==
    /\ SessionClosed
    /\ tmLast.out = <<"Route removed 0.0.0.0", "Route removed 128.0.0.0",
                      "Route removed 10.0.0.0", "Route removed 203.0.113.5",
                      "Stopping WireGuard interface...",
                      "WireGuard userspace device stopped">>
    /\ ~os.tun

(***************************************************************************)
(* SpecDevice: sequential calls on one WireGuardDevice.                    *)
(***************************************************************************)
MaxDeviceCalls == 4

\* the state after a device call that returned r
DeviceReturns(name, r, d) ==
    /\ wd' = d
    /\ wdLast' = [op |-> name, err |-> r.err, log |-> r.log, panic |-> r.panic,
                  before |-> wd]
    /\ wdCalls' = wdCalls + 1
    /\ UNCHANGED <<allocVars, concVars, storeVars, serverVars, clientVars, planeVars, reader>>

\* NewWireGuardDevice: the caller holds the new device when there is no error
CallNewWireGuardDevice(ok) ==
    /\ wdCalls < MaxDeviceCalls
    /\ \E r \in {NewWireGuardDevice(ok)} :
          DeviceReturns("NewWireGuardDevice", [r EXCEPT !.nil = FALSE] @@ [panic |-> FALSE],
                        IF r.nil THEN wd ELSE r.wd)

CallDeviceStart(ok) ==
    /\ wdCalls < MaxDeviceCalls
    /\ wd.device = "nil" => ok
    /\ \E r \in {DeviceStart(wd, ok)} :
          DeviceReturns("Start", r @@ [panic |-> FALSE], r.wd)

CallDeviceStop(close, tunClose) ==
    /\ wdCalls < MaxDeviceCalls
    /\ wd.device = "nil" => close = "returns"
    /\ wd.tun = "nil" => tunClose
    /\ \E r \in {DeviceStop(wd, close, tunClose)} : DeviceReturns("Stop", r, r.wd)

NextDevice ==
    \/ \E ok \in BOOLEAN : CallNewWireGuardDevice(ok)
    \/ \E ok \in BOOLEAN : CallDeviceStart(ok)
    \/ \E close \in {"returns", "panics"}, tunClose \in BOOLEAN : CallDeviceStop(close, tunClose)

SpecDevice == InitVPNServer /\ [][NextDevice]_vars

\* C32: a Stop of the device closes the TUN, when there is one, whether
\* device.Close returns or panics, and no panic leaves Stop; a Stop of a
\* device with no engine handle and no TUN makes no call and returns nil.
C32_StopClosesTun ==
    [][(wdCalls' = wdCalls + 1 /\ wdLast'.op = "Stop") =>
          /\ ~wdLast'.panic
          /\ wd.tun # "nil" => wdLast'.log[Len(wdLast'.log)] = "tun.Close"
          /\ wd.device # "nil" => wdLast'.log[1] = "device.Close"
          /\ (wd.tun # "nil" /\ wdLast'.err = "nil") => wd'.tun = "closed"
          /\ (wd.device = "nil" /\ wd.tun = "nil")
                => (wdLast'.err = "nil" /\ wdLast'.log = <<>>)]_vars

\* a Stop whose device.Close panicked has recovered and closed the TUN
C32_Witness ==
    /\ wdLast.op = "Stop"
    /\ wdLast.log = <<"device.Close", "recover", "tun.Close">>
    /\ wdLast.err = "nil"
    /\ wdLast.before.tun = "open"
    /\ wd.tun = "closed"

(***************************************************************************)
(* SpecRegistry: the calls of SpecStore together with goroutines that read *)
(* the store by ListPeers and GetPeer, with no failure of the file system. *)
(* ListPeers copies one entry of ps.peers at a step.                       *)
(***************************************************************************)
\* ListPeers: ps.mu.RLock() and result := make(map[string]*PeerConfig)
ListPeersEnter(g) ==
    /\ proc = "up" /\ CanRLock
    /\ reader[g].pc = "idle"
    /\ reader' = [reader EXCEPT ![g] = [NoRead EXCEPT !.pc = "ListPeers"]]
    /\ UNCHANGED <<allocVars, concVars, storeVars, serverVars, clientVars, deviceVars,
                   planeVars>>

\* ListPeers: one turn of the loop over ps.peers, result[k] = v
ListPeersCopy(g, k) ==
    /\ reader[g].pc = "ListPeers"
    /\ k \notin reader[g].visited
    /\ reader' = [reader EXCEPT ![g].visited = @ \cup {k}, ![g].result[k] = peers[k]]
    /\ UNCHANGED <<allocVars, concVars, storeVars, serverVars, clientVars, deviceVars,
                   planeVars>>

\* ListPeers: the loop is over; the deferred ps.mu.RUnlock() and the return
\* of result
ListPeersReturn(g) ==
    /\ reader[g].pc = "ListPeers"
    /\ reader[g].visited = PublicKeys
    /\ reader' = [reader EXCEPT ![g] = NoRead]
    /\ UNCHANGED <<allocVars, concVars, storeVars, serverVars, clientVars, deviceVars,
                   planeVars>>

\* GetPeer(publicKey): ps.mu.RLock() and the read of ps.peers[publicKey]
GetPeerEnter(g, publicKey) ==
    /\ proc = "up" /\ CanRLock
    /\ reader[g].pc = "idle"
    /\ reader' = [reader EXCEPT ![g] = [NoRead EXCEPT !.pc = "GetPeer", !.key = publicKey,
                                                      !.result[publicKey] = peers[publicKey]]]
    /\ UNCHANGED <<allocVars, concVars, storeVars, serverVars, clientVars, deviceVars,
                   planeVars>>

\* GetPeer: the deferred ps.mu.RUnlock() and the return of the peer read
GetPeerReturn(g) ==
    /\ reader[g].pc = "GetPeer"
    /\ reader' = [reader EXCEPT ![g] = NoRead]
    /\ UNCHANGED <<allocVars, concVars, storeVars, serverVars, clientVars, deviceVars,
                   planeVars>>

\* the mutating calls SpecRegistry makes
MaxRegistryOps == 2

NextRegistry ==
    \/ \E publicKey \in PublicKeys, allowedIPs \in AllowedIPsTexts :
            storeOps < MaxRegistryOps /\ AddPeer(publicKey, allowedIPs)
    \/ \E publicKey \in PublicKeys : storeOps < MaxRegistryOps /\ RemovePeer(publicKey)
    \/ saveWriteOpen
    \/ saveWrite
    \/ saveRename
    \/ \E g \in Goroutines : ListPeersEnter(g)
    \/ \E g \in Goroutines, k \in PublicKeys : ListPeersCopy(g, k)
    \/ \E g \in Goroutines : ListPeersReturn(g)
    \/ \E g \in Goroutines, publicKey \in PublicKeys : GetPeerEnter(g, publicKey)
    \/ \E g \in Goroutines : GetPeerReturn(g)

SpecRegistry == InitPeerStore /\ [][NextRegistry]_vars
\* C34: access to the peer registry is reader/writer exclusive.  While an
\* AddPeer or RemovePeer is in progress (from its change of ps.peers through
\* the rewrite of the temporary file to the rename) no goroutine is inside
\* ListPeers or GetPeer; an AddPeer or RemovePeer starts only when no other
\* one is in progress and no read is; and the mapping a ListPeers returns,
\* and the peer a GetPeer returns, is that of ps.peers with no mutation in
\* progress and every mutation begun so far completed.
C34_ReaderWriterExclusive ==
    [][/\ storeMu' => \A g \in Goroutines : reader'[g].pc = "idle"
       /\ storeOps' = storeOps + 1 =>
             /\ ~storeMu /\ op = NoOp
             /\ \A g \in Goroutines : reader[g].pc = "idle"
       /\ \A g \in Goroutines :
             (reader[g].pc # "idle" /\ reader'[g].pc = "idle") =>
                /\ ~storeMu /\ op = NoOp
                /\ \A k \in PublicKeys : lastOp[k].status # "pending"
                /\ reader[g].pc = "ListPeers" => reader[g].result = peers
                /\ reader[g].pc = "GetPeer" =>
                      reader[g].result[reader[g].key] = peers[reader[g].key]]_vars

\* after two completed mutations a ListPeers that has copied the whole,
\* non-empty mapping is about to return while another goroutine is inside
\* GetPeer
C34_Witness ==
    /\ storeOps = 2 /\ ~storeMu
    /\ peers # EmptyPeers
    /\ reader[1].pc = "ListPeers" /\ reader[1].visited = PublicKeys
    /\ reader[1].result = peers
    /\ reader[2].pc = "GetPeer"
    /\ reader[2].result[reader[2].key] # NoPeer

(***************************************************************************)
(* SpecPlane: goroutines calling Start, Stop, AddClient and RemoveClient   *)
(* of one VPNServer at once.  A call is a sequence of steps: the           *)
(* acquisition of s.mu, the test of s.running, the call on the backend,    *)
(* the call on the peer store or the assignment of s.running, and the      *)
(* deferred release.  The backend and the peer store each run a call under *)
(* their own mutex, so a call on them is one step.  The device, the        *)
(* device's IpcSet and the file system do not fail.                        *)
(***************************************************************************)
\* the calls the goroutines of SpecPlane start
MaxPlaneCalls == 4

\* the configuration passed to Start
PlaneConfig == ServerConfig("wg0", "priv", 51820, "10.0.0.1")

\* a write lock that waits for no reader
CanLockServerOverReaders == sMu.writer = 0

\* s.mu.Lock() can be taken: no goroutine holds s.mu in either mode
CanLockServer == sMu.writer = 0 /\ sMu.readers = {}

\* s.mu.RLock() can be taken: no goroutine holds the write lock
CanRLockServer == sMu.writer = 0

\* Start and Stop: s.mu.Lock()
LockServer(g, name) ==
    /\ srvCalls < MaxPlaneCalls
    /\ task[g].pc = "idle"
    /\ CanLockServer
    /\ sMu' = [sMu EXCEPT !.writer = g]
    /\ task' = [task EXCEPT ![g] = [NoTask EXCEPT !.op = name, !.pc = "check"]]
    /\ srvCalls' = srvCalls + 1
    /\ UNCHANGED <<srv, backend, srvLast, stop, allocVars, concVars, storeVars,
                   clientVars, deviceVars, reader>>

\* AddClient and RemoveClient: s.mu.RLock()
RLockServer(g, name, publicKey, clientIP) ==
    /\ srvCalls < MaxPlaneCalls
    /\ task[g].pc = "idle"
    /\ CanRLockServer
    /\ sMu' = [sMu EXCEPT !.readers = @ \cup {g}]
    /\ task' = [task EXCEPT ![g] = [NoTask EXCEPT !.op = name, !.pc = "check",
                                                  !.key = publicKey, !.ip = clientIP]]
    /\ srvCalls' = srvCalls + 1
    /\ UNCHANGED <<srv, backend, srvLast, stop, allocVars, concVars, storeVars,
                   clientVars, deviceVars, reader>>

\* the test of s.running that opens each method, and Start's validateConfig
CheckRunning(g) ==
    /\ task[g].pc = "check"
    /\ LET name == task[g].op
           err  == IF name = "Start"
                   THEN IF running(srv) THEN "VPN server already running"
                        ELSE IF validateConfig(PlaneConfig) # "nil"
                        THEN Wrap("invalid configuration", validateConfig(PlaneConfig))
                        ELSE "nil"
                   ELSE IF name = "Stop" THEN "nil"
                   ELSE IF ~srv.running THEN "VPN server not running" ELSE "nil"
           goes == IF name = "Stop" THEN srv.running ELSE err = "nil"
       IN  task' = [task EXCEPT ![g].pc = IF goes THEN "backend" ELSE "unlock",
                                ![g].err = err,
                                ![g].seen = srv.running]
    /\ UNCHANGED <<sMu, serverVars, allocVars, concVars, storeVars, clientVars,
                   deviceVars, reader>>

\* Start: s.backend.Start(ctx, config)
StartBackend(g) ==
    /\ task[g].op = "Start" /\ task[g].pc = "backend"
    /\ LET started == BackendStart(backend, PlaneConfig, DeviceUp)
       IN  /\ backend' = started.ub
           /\ task' = [task EXCEPT
                  ![g].pc = IF started.err # "nil" THEN "unlock" ELSE "finish",
                  ![g].err = IF started.err # "nil"
                             THEN Wrap("backend start failed", started.err) ELSE "nil"]
    /\ UNCHANGED <<sMu, srv, srvLast, srvCalls, stop, allocVars, concVars, storeVars,
                   clientVars, deviceVars, reader>>

\* Start: restorePersistedPeers, s.config = config, s.running = true
StartFinish(g) ==
    /\ task[g].op = "Start" /\ task[g].pc = "finish"
    /\ backend' = restorePersistedPeers(backend, peers, AllAccepted).ub
    /\ srv' = [running |-> TRUE, config |-> PlaneConfig]
    /\ task' = [task EXCEPT ![g].pc = "unlock"]
    /\ UNCHANGED <<sMu, srvLast, srvCalls, stop, allocVars, concVars, storeVars,
                   clientVars, deviceVars, reader>>

\* Stop: s.backend.Stop(ctx)
StopBackend(g) ==
    /\ task[g].op = "Stop" /\ task[g].pc = "backend"
    /\ backend' = BackendStop(backend).ub
    /\ task' = [task EXCEPT ![g].pc = "finish"]
    /\ UNCHANGED <<sMu, srv, srvLast, srvCalls, stop, allocVars, concVars, storeVars,
                   clientVars, deviceVars, reader>>

\* Stop: s.running = false
StopFinish(g) ==
    /\ task[g].op = "Stop" /\ task[g].pc = "finish"
    /\ srv' = [srv EXCEPT !.running = FALSE]
    /\ task' = [task EXCEPT ![g].pc = "unlock"]
    /\ UNCHANGED <<sMu, backend, srvLast, srvCalls, stop, allocVars, concVars,
                   storeVars, clientVars, deviceVars, reader>>

\* AddClient: s.backend.AddPeer(publicKey, allowedIPs)
AddClientBackend(g) ==
    /\ task[g].op = "AddClient" /\ task[g].pc = "backend"
    /\ LET added == BackendAddPeer(backend, task[g].key, <<task[g].ip \o "/32">>, TRUE)
       IN  /\ backend' = added.ub
           /\ task' = [task EXCEPT
                  ![g].pc = IF added.err # "nil" THEN "unlock" ELSE "store",
                  ![g].err = IF added.err # "nil"
                             THEN Wrap("failed to add client peer", added.err) ELSE "nil"]
    /\ UNCHANGED <<sMu, srv, srvLast, srvCalls, stop, allocVars, concVars, storeVars,
                   clientVars, deviceVars, reader>>

\* AddClient: s.peerStore.AddPeer(publicKey, clientIP+"/32")
AddClientStore(g) ==
    /\ task[g].op = "AddClient" /\ task[g].pc = "store"
    /\ LET stored == PeerStoreAddPeer(peers, fs, task[g].key, task[g].ip \o "/32",
                                      storeOps + 1, "ok")
       IN  /\ peers' = stored.peers
           /\ fs' = stored.fs
    /\ storeOps' = storeOps + 1
    /\ task' = [task EXCEPT ![g].pc = "unlock"]
    /\ UNCHANGED <<sMu, proc, storeMu, op, lastOp, pre, post, rebuilt, serverVars,
                   allocVars, concVars, clientVars, deviceVars, reader>>

\* RemoveClient: s.backend.RemovePeer(publicKey)
RemoveClientBackend(g) ==
    /\ task[g].op = "RemoveClient" /\ task[g].pc = "backend"
    /\ LET removed == BackendRemovePeer(backend, task[g].key, TRUE)
       IN  /\ backend' = removed.ub
           /\ task' = [task EXCEPT
                  ![g].pc = IF removed.err # "nil" THEN "unlock" ELSE "store",
                  ![g].err = IF removed.err # "nil"
                             THEN Wrap("failed to remove client peer", removed.err)
                             ELSE "nil"]
    /\ UNCHANGED <<sMu, srv, srvLast, srvCalls, stop, allocVars, concVars, storeVars,
                   clientVars, deviceVars, reader>>

\* RemoveClient: s.peerStore.RemovePeer(publicKey)
RemoveClientStore(g) ==
    /\ task[g].op = "RemoveClient" /\ task[g].pc = "store"
    /\ LET stored == PeerStoreRemovePeer(peers, fs, task[g].key, "ok")
       IN  /\ peers' = stored.peers
           /\ fs' = stored.fs
    /\ storeOps' = storeOps + 1
    /\ task' = [task EXCEPT ![g].pc = "unlock"]
    /\ UNCHANGED <<sMu, proc, storeMu, op, lastOp, pre, post, rebuilt, serverVars,
                   allocVars, concVars, clientVars, deviceVars, reader>>

\* the deferred s.mu.Unlock() or s.mu.RUnlock() and the return
UnlockServer(g) ==
    /\ task[g].pc = "unlock"
    /\ sMu' = [writer |-> IF sMu.writer = g THEN 0 ELSE sMu.writer,
               readers |-> sMu.readers \ {g}]
    /\ task' = [task EXCEPT ![g] = NoTask]
    /\ UNCHANGED <<serverVars, allocVars, concVars, storeVars, clientVars, deviceVars,
                   reader>>

NextPlane ==
    \/ \E g \in Goroutines : LockServer(g, "Start")
    \/ \E g \in Goroutines : LockServer(g, "Stop")
    \/ \E g \in Goroutines, publicKey \in PublicKeys, clientIP \in ClientIPs :
            RLockServer(g, "AddClient", publicKey, clientIP)
    \/ \E g \in Goroutines, publicKey \in PublicKeys :
            RLockServer(g, "RemoveClient", publicKey, "")
    \/ \E g \in Goroutines : CheckRunning(g)
    \/ \E g \in Goroutines : StartBackend(g)
    \/ \E g \in Goroutines : StartFinish(g)
    \/ \E g \in Goroutines : StopBackend(g)
    \/ \E g \in Goroutines : StopFinish(g)
    \/ \E g \in Goroutines : AddClientBackend(g)
    \/ \E g \in Goroutines : AddClientStore(g)
    \/ \E g \in Goroutines : RemoveClientBackend(g)
    \/ \E g \in Goroutines : RemoveClientStore(g)
    \/ \E g \in Goroutines : UnlockServer(g)

SpecPlane == InitVPNServer /\ [][NextPlane]_vars

\* the goroutine is inside the method named, between its acquisition of s.mu
\* and its release
Inside(g, names) == task[g].pc # "idle" /\ task[g].op \in names

\* C33: Start and Stop exclude each other and AddClient and RemoveClient.
\* While a goroutine is inside Start or Stop no other goroutine is inside any
\* of the four methods; s.running and the backend's running flag do not
\* change during a step taken while a goroutine is inside AddClient or
\* RemoveClient; and an AddClient or RemoveClient that is at its backend or
\* registry step found the server running and works on a running backend.
C33_StartStopExclusive ==
    [][/\ \A g \in Goroutines :
             Inside(g, {"Start", "Stop"})' =>
                /\ sMu'.writer = g /\ sMu'.readers = {}
                /\ \A h \in Goroutines \ {g} : task'[h].pc = "idle"
       /\ \A g \in Goroutines :
             Inside(g, {"AddClient", "RemoveClient"}) =>
                /\ srv'.running = srv.running
                /\ backend'.running = backend.running
                /\ task[g].pc \in {"backend", "store"} =>
                      (task[g].seen /\ srv.running /\ backend.running)]_vars

\* a Stop has shut the backend down and is about to clear s.running, after
\* an AddClient of a key that no persisted file held has completed; every
\* other goroutine is outside
C33_Witness ==
    /\ \E g \in Goroutines : task[g].op = "Stop" /\ task[g].pc = "finish"
    /\ srv.running /\ ~backend.running
    /\ peers["k2"].present

\* the backend tracks the peers the registry holds, with the same addresses
BackendMatchesRegistry ==
    \A k \in PublicKeys :
        backend.peers[k] = IF peers[k].present THEN AllowedIPs(<<peers[k].AllowedIPs>>)
                           ELSE NoAllowedIPs

\* C37: when every AddClient and RemoveClient started on a running server has
\* returned, the backend tracks exactly the peers and allowed addresses the
\* registry holds
C37_BackendMatchesRegistry ==
    (srv.running /\ \A g \in Goroutines : task[g].pc = "idle") => BackendMatchesRegistry
====
